---- MODULE Spec2Model ----
(***************************************************************************)
(* A model of the e-commerce ETL pipeline (ETL_project_end_to_end):         *)
(* DataExtractor, DataTransformer and DataLoader.                           *)
(*                                                                          *)
(* Representation.                                                          *)
(*   - A cell of a DataFrame is <<>> (null: NaN / None / NaT) or <<v>>.      *)
(*   - A number is an integer count of 1/Unit (fixed point): the values the  *)
(*     model draws are multiples of Unit, so the quartile interpolation and  *)
(*     the IQR bounds are exact through two rounds of clamping.              *)
(*   - A text is a sequence of one-character strings, so that strip, lower   *)
(*     and title are computed and not assumed.                               *)
(*   - A DataFrame is a sequence of records (rows) over its columns.         *)
(***************************************************************************)
EXTENDS Integers, Sequences, FiniteSets, TLC

VARIABLES
    pc,               \* position of the caller in the scenario being run
    cleaning_config,  \* DataTransformer.cleaning_config
    df,               \* the DataFrame handed to the method under study
    df_cleaned,       \* what _clean_dataframe(df) returned
    df_recleaned,     \* what _clean_dataframe(df_cleaned) returned
    columns,          \* df.columns: the columns the DataFrame has
    df_transformed,   \* what the _transform_<kind> method returned, or that it raised
    transformed_data, \* the mapping name -> transformed DataFrame
    derived_tables,   \* what _create_derived_tables(transformed_data) returned
    csv_files,        \* the *.csv files of the raw directory, in the order glob lists them
    database,         \* the SQLite file at database.path
    rejected,         \* the tables for which to_sql raises
    raw_data,         \* what extract_all returned, or that it raised
    valid,            \* what validate_extracted_data(raw_data) returned
    processed_data,   \* what transform_all returned, or that it raised
    attempted,        \* the tables _load_table has been called for by the last load
    load_result,      \* what the last load returned
    pipeline_result,  \* what the last run_full_pipeline returned
    calls,            \* how many calls of the entry point have returned
    config,           \* the scraping configuration: competitors and debug_mode
    scrapers,         \* ScraperManager.scrapers: the registered competitor names
    competitor_name,  \* the argument of the last enable_scraper / disable_scraper
    before,           \* the keys of ScraperManager.scrapers when the last call began
    returned,         \* what the last call of the ScraperManager returned
    futures,          \* future_to_competitor: the state of each submitted worker
    results,          \* the local results of scrape_all_competitors
    scraped,          \* what scrape_all_competitors returned, or that it raised
    retries,          \* BaseScraper.retries
    attempt,          \* the loop variable of _make_request
    stats,            \* BaseScraper.stats
    log,              \* the requests sent and the sleeps taken, in order
    response,         \* what _make_request returned
    max_pages,        \* BaseScraper.max_pages
    page,             \* the local page of _scrape_category
    all_products,     \* the local all_products of _scrape_category
    requested,        \* the result pages _scrape_category has requested, in order
    numero_secreto,   \* adivinanza.py: the secret number
    intentos_restantes, \* adivinanza.py: the attempts left
    entry_intentos,   \* adivinanza.py: the content of the entry widget
    evento            \* adivinanza.py: the last button event and the counter before it

\* The state of the other programs of the repository, which the ETL project
\* leaves alone.
managerVars == <<config, scrapers, competitor_name, before, returned, futures, results, scraped>>
requestVars == <<retries, attempt, stats, log, response>>
categoryVars == <<max_pages, page, all_products, requested>>
gameVars == <<numero_secreto, intentos_restantes, entry_intentos, evento>>
siblingVars == <<managerVars, requestVars, categoryVars, gameVars>>

\* The state of the pipeline, which the scenarios of one method leave alone.
pipelineVars == <<csv_files, database, rejected, raw_data, valid, processed_data,
                  attempted, load_result, pipeline_result, calls, siblingVars>>
aggregationVars == <<transformed_data, derived_tables, pipelineVars>>
methodVars == <<df, df_cleaned, df_recleaned, columns, df_transformed, pipelineVars>>

\* The state of the method scenarios, which the pipeline leaves alone.
scenarioVars == <<df, df_cleaned, df_recleaned, columns, df_transformed,
                  transformed_data, derived_tables, siblingVars>>

\* The state of the ETL project, which the other programs leave alone.
etlVars == <<cleaning_config, df, df_cleaned, df_recleaned, columns, df_transformed,
             transformed_data, derived_tables, csv_files, database, rejected, raw_data,
             valid, processed_data, attempted, load_result, pipeline_result, calls>>

vars == <<pc, cleaning_config, scenarioVars, pipelineVars>>

\* ---------------------------------------------------------------- bounds
MaxRows == 4
MaxVentas == 3
MaxClientes == 3
MaxFact == 2
MaxDim == 2
MaxRuns == 2
MaxLoads == 3
MaxProductos == 4
MaxInventario == 3
MaxUncoerced == 3
MaxDatasets == 3
MaxScraped == 1
MaxRetries == 3
MaxRequests == 3
MaxPages == 3
MaxSecreto == 3

\* ------------------------------------------------------------- constants
Unit == 32 * 32
ThresholdNum == 3
ThresholdDen == 2
NumericFill == 0
ToleranceNum == 1
ToleranceDen == 100

\* ----------------------------------------------------------------- cells
Null == <<>>
Some(v) == <<v>>
IsNull(c) == c = Null
Unknown == <<"U", "n", "k", "n", "o", "w", "n">>

\* A cell of an object column that holds the text 'abc' where a number is
\* expected: the value and its Python type.
Garbled == <<"abc", "str">>
\* A complex number: numeric for select_dtypes, but without an order.
Complex(re, im) == <<"complex", re, im>>
IsComplex(c) == Len(c) = 3
IsGarbled(c) == Len(c) = 2

Range(s) == {s[i] : i \in 1..Len(s)}
MaxOf(S) == CHOOSE x \in S : \A y \in S : y <= x
MinOf(S) == CHOOSE x \in S : \A y \in S : x <= y

\* The rows of `rows` at the indices in I, in order.
RECURSIVE Keep(_, _)
Keep(rows, I) ==
    IF rows = <<>> THEN <<>>
    ELSE LET n == Len(rows)
             front == Keep(SubSeq(rows, 1, n - 1), I)
         IN IF n \in I THEN Append(front, rows[n]) ELSE front

\* ------------------------------------------------------ _clean_dataframe
\* DataFrame.drop_duplicates(): the first occurrence of each row is kept, in
\* order; null cells compare equal to each other.
DropConsecutiveDuplicates(rows) ==
    Keep(rows, {i \in 1..Len(rows) : i = 1 \/ rows[i - 1] # rows[i]})

drop_duplicates(rows) ==
    Keep(rows, {i \in 1..Len(rows) : \A j \in 1..(i - 1) : rows[j] # rows[i]})

\* A forward fill that reaches one row back only (fillna with limit=1).
FillFromRowAbove(rows, cols) ==
    [i \in 1..Len(rows) |->
        [c \in cols |->
            IF ~IsNull(rows[i][c]) \/ i = 1 THEN rows[i][c]
            ELSE rows[i - 1][c]]]

\* fillna(method='ffill'): the nearest preceding non-null cell of the column.
ffill(rows, cols) ==
    [i \in 1..Len(rows) |->
        [c \in cols |->
            IF ~IsNull(rows[i][c]) THEN rows[i][c]
            ELSE LET P == {j \in 1..(i - 1) : ~IsNull(rows[j][c])}
                 IN IF P = {} THEN Null ELSE rows[MaxOf(P)][c]]]

\* fillna(method='bfill'): the nearest following non-null cell of the column.
bfill(rows, cols) ==
    [i \in 1..Len(rows) |->
        [c \in cols |->
            IF ~IsNull(rows[i][c]) THEN rows[i][c]
            ELSE LET F == {j \in (i + 1)..Len(rows) : ~IsNull(rows[j][c])}
                 IN IF F = {} THEN Null ELSE rows[MinOf(F)][c]]]

\* The else branch: numeric columns get the numeric constant, the others the
\* categorical one.
fill_constant(rows, cols, numcols) ==
    [i \in 1..Len(rows) |->
        [c \in cols |->
            IF ~IsNull(rows[i][c]) THEN rows[i][c]
            ELSE IF c \in numcols THEN Some(NumericFill) ELSE Some(Unknown)]]

\* A fill that copies only the cell right above (fillna with limit=1).
FillFromPreviousRowOnly(rows, cols, numcols, strategy) ==
    [i \in 1..Len(rows) |->
        [c \in cols |->
            IF ~IsNull(rows[i][c]) \/ i = 1 THEN rows[i][c]
            ELSE rows[i - 1][c]]]

fill_missing(rows, cols, numcols, strategy) ==
    IF strategy = "forward" THEN ffill(rows, cols)
    ELSE IF strategy = "backward" THEN bfill(rows, cols)
    ELSE fill_constant(rows, cols, numcols)

\* -------------------------------------------------- _handle_outliers_iqr
NonNull(rows, c) == {i \in 1..Len(rows) : ~IsNull(rows[i][c])}

\* The k-th (from 0) smallest non-null value of column c.
Kth(rows, c, k) ==
    LET I == NonNull(rows, c)
    IN CHOOSE x \in {rows[i][c][1] : i \in I} :
          /\ Cardinality({i \in I : rows[i][c][1] < x}) <= k
          /\ k < Cardinality({i \in I : rows[i][c][1] <= x})

\* Series.quantile(q/4), linear interpolation over the non-null values.
quantile(rows, c, q) ==
    LET n == Cardinality(NonNull(rows, c))
        lo == ((n - 1) * q) \div 4
        r == ((n - 1) * q) % 4
    IN IF r = 0 THEN Kth(rows, c, lo)
       ELSE Kth(rows, c, lo) + ((Kth(rows, c, lo + 1) - Kth(rows, c, lo)) * r) \div 4

IQR(rows, c) == quantile(rows, c, 3) - quantile(rows, c, 1)
\* The bounds for a threshold of num / ThresholdDen.
LowerAt(rows, c, num) == quantile(rows, c, 1) - (num * IQR(rows, c)) \div ThresholdDen
UpperAt(rows, c, num) == quantile(rows, c, 3) + (num * IQR(rows, c)) \div ThresholdDen
lower_bound(rows, c) == LowerAt(rows, c, ThresholdNum)
upper_bound(rows, c) == UpperAt(rows, c, ThresholdNum)

\* A clamp that forgets the lower bound.
ClampUpperOnly(rows, c, v) ==
    IF v > upper_bound(rows, c) THEN upper_bound(rows, c) ELSE v

clamp(rows, c, v) ==
    IF v < lower_bound(rows, c) THEN lower_bound(rows, c)
    ELSE IF v > upper_bound(rows, c) THEN upper_bound(rows, c)
    ELSE v

\* Every numeric column is clamped to its own bounds; a null cell compares
\* false with both bounds and stays null; no row is removed.
ClampColumns(rows, cols, numcols) ==
    [i \in 1..Len(rows) |->
        [c \in cols |->
            IF c \in numcols /\ ~IsNull(rows[i][c])
            THEN Some(clamp(rows, c, rows[i][c][1]))
            ELSE rows[i][c]]]

\* The numeric columns whose quantile or comparison raises.
Unordered(rows, numcols) ==
    {c \in numcols : \E i \in 1..Len(rows) : IsComplex(rows[i][c])}

\* _handle_outliers_iqr(df, threshold) with the threshold num / ThresholdDen.
HandleOutliersAt(rows, cols, numcols, num) ==
    IF Unordered(rows, numcols) # {} THEN rows
    ELSE [i \in 1..Len(rows) |->
            [c \in cols |->
                IF c \in numcols /\ ~IsNull(rows[i][c])
                THEN Some(IF rows[i][c][1] < LowerAt(rows, c, num) THEN LowerAt(rows, c, num)
                          ELSE IF rows[i][c][1] > UpperAt(rows, c, num) THEN UpperAt(rows, c, num)
                          ELSE rows[i][c][1])
                ELSE rows[i][c]]]

\* The loop over the numeric columns sits in one try block whose except clause
\* returns the DataFrame as it was given.
_handle_outliers_iqr(rows, cols, numcols) ==
    IF Unordered(rows, numcols) # {} THEN rows
    ELSE ClampColumns(rows, cols, numcols)

\* The dataset as it enters the outlier step of _clean_dataframe.
Filled(rows, cols, numcols, cfg) ==
    fill_missing(IF cfg.remove_duplicates THEN drop_duplicates(rows) ELSE rows,
                 cols, numcols, cfg.strategy)

_clean_dataframe(rows, cols, numcols, cfg) ==
    LET filled == Filled(rows, cols, numcols, cfg)
    IN IF cfg.method = "iqr" THEN _handle_outliers_iqr(filled, cols, numcols)
       ELSE filled

\* ------------------------------------------------- results of a method
\* A method returns a DataFrame or raises.
Raised == [raised |-> TRUE, columns |-> {}, rows |-> <<>>]
Returned(rows, cols) == [raised |-> FALSE, columns |-> cols, rows |-> rows]
NotCalled == Returned(<<>>, {})

Restrict(rows, cols) == [i \in 1..Len(rows) |-> [c \in cols |-> rows[i][c]]]

\* What a stage returned, or that it raised, or that it has not been called.
NotYet == [called |-> FALSE, raised |-> FALSE, data |-> <<>>]
Raises == [called |-> TRUE, raised |-> TRUE, data |-> <<>>]
Returns(d) == [called |-> TRUE, raised |-> FALSE, data |-> d]

\* The SQLite file at database.path: absent, not a database ("corrupt"), or a
\* database ("ok") with its tables in the order sqlite_master lists them.
Database(state, tables) == [state |-> state, tables |-> tables]

\* The other programs of the repository, not started.
ManagerIdle ==
    /\ config = [competitors |-> <<>>, debug_mode |-> FALSE]
    /\ scrapers = {}
    /\ competitor_name = ""
    /\ before = {}
    /\ returned = Null
    /\ futures = <<>>
    /\ results = <<>>
    /\ scraped = NotYet
RequestIdle ==
    /\ retries = 0
    /\ attempt = 0
    /\ stats = [errors |-> 0]
    /\ log = <<>>
    /\ response = NotYet
CategoryIdle ==
    /\ max_pages = 0
    /\ page = 0
    /\ all_products = <<>>
    /\ requested = <<>>
GameIdle ==
    /\ numero_secreto = 0
    /\ intentos_restantes = 0
    /\ entry_intentos = ""
    /\ evento = Null
SiblingsIdle == ManagerIdle /\ RequestIdle /\ CategoryIdle /\ GameIdle

\* The pipeline before anything has been extracted.
PipelineAtRest ==
    /\ csv_files = <<>>
    /\ database = Database("absent", <<>>)
    /\ rejected = {}
    /\ raw_data = NotYet
    /\ valid = Null
    /\ processed_data = NotYet
    /\ attempted = <<>>
    /\ load_result = Null
    /\ pipeline_result = Null
    /\ calls = 0
PipelineIdle == SiblingsIdle /\ PipelineAtRest

\* The columns of the pipeline's tables that hold numbers (int64 / float64).
NumericColumnNames ==
    {"id", "producto_id", "cliente_id", "cantidad", "precio", "total", "mes", "año",
     "stock", "stock_actual", "stock_minimo", "num_ventas", "num_compras"}
NumericOf(cols) == cols \cap NumericColumnNames

\* ----------------------------------------------------- cleaning policies
Policies ==
    [remove_duplicates : BOOLEAN,
     strategy : {"forward", "backward", "constant"},
     method : {"none", "iqr"}]

\* ------------------------------------------- scenario: _clean_dataframe
\* The DataFrame of test_data_cleaning: a numeric column with nulls and a
\* text column.
CleanCols == {"id", "nombre"}
CleanNumCols == {"id"}
CleanRecords ==
    [id : {Null, Some(0), Some(100 * Unit)},
     nombre : {Null, Some(<<"A", "n", "a">>)}]

InitClean ==
    /\ pc = "input"
    /\ cleaning_config \in Policies
    /\ df = <<>>
    /\ df_cleaned = <<>>
    /\ df_recleaned = <<>>
    /\ columns = CleanCols
    /\ df_transformed = NotCalled
    /\ transformed_data = <<>>
    /\ derived_tables = <<>>
    /\ PipelineIdle

\* The caller builds the DataFrame one record at a time.
AppendRecord ==
    /\ pc = "input"
    /\ Len(df) < MaxRows
    /\ \E r \in CleanRecords : df' = Append(df, r)
    /\ UNCHANGED <<pc, cleaning_config, df_cleaned, df_recleaned, columns, df_transformed, aggregationVars>>

CleanDataframe ==
    /\ pc = "input"
    /\ df_cleaned' = _clean_dataframe(df, CleanCols, CleanNumCols, cleaning_config)
    /\ pc' = "cleaned"
    /\ UNCHANGED <<cleaning_config, df, df_recleaned, columns, df_transformed, aggregationVars>>

CleanDataframeAgain ==
    /\ pc = "cleaned"
    /\ df_recleaned' = _clean_dataframe(df_cleaned, CleanCols, CleanNumCols, cleaning_config)
    /\ pc' = "recleaned"
    /\ UNCHANGED <<cleaning_config, df, df_cleaned, columns, df_transformed, aggregationVars>>

NextClean == AppendRecord \/ CleanDataframe \/ CleanDataframeAgain

SpecClean == InitClean /\ [][NextClean]_vars

\* ------------------------------------------------------ claims C2, C3, C5
NoDuplicates(rows) == \A i, j \in 1..Len(rows) : rows[i] = rows[j] => i = j
NoNullCell(rows, cols) == \A i \in 1..Len(rows) : \A c \in cols : ~IsNull(rows[i][c])
EnteringOutlierStep == Filled(df, CleanCols, CleanNumCols, cleaning_config)

\* C2 as stated: without remove_duplicates the output has len(D) records; with it
\* the output has at most len(D) records and no two records of the final output
\* (after filling and clamping) are equal.
C2_UniqueAfterAllSteps ==
    pc = "cleaned" =>
        IF cleaning_config.remove_duplicates
        THEN Len(df_cleaned) <= Len(df) /\ NoDuplicates(df_cleaned)
        ELSE Len(df_cleaned) = Len(df)

\* C2 amended: without remove_duplicates the output has len(D) records; with it
\* the output has exactly one record per distinct record of D (hence at most
\* len(D)), and its records are pairwise distinct when D has no null cell and
\* outliers are not clamped (filling and clamping run after the removal).
C2_OneRecordPerDistinctInput ==
    pc = "cleaned" =>
        IF cleaning_config.remove_duplicates
        THEN /\ Len(df_cleaned) <= Len(df)
             /\ Len(df_cleaned) = Cardinality(Range(df))
             /\ (NoNullCell(df, CleanCols) /\ cleaning_config.method = "none"
                    => NoDuplicates(df_cleaned))
        ELSE Len(df_cleaned) = Len(df)

\* C2 witness: duplicates were removed, and filling made two survivors equal.
C2_Witness ==
    /\ pc = "cleaned"
    /\ cleaning_config.remove_duplicates
    /\ Len(df_cleaned) < Len(df)
    /\ ~NoDuplicates(df_cleaned)

\* C3 as stated: for every dataset and policy, cleaning the cleaned dataset again
\* returns it unchanged.
C3_IdempotentForEveryPolicy ==
    pc = "recleaned" => df_recleaned = df_cleaned

\* C3 amended: cleaning the cleaned dataset again returns it unchanged whenever
\* the first pass clamped no value (always so with outlier method none) and,
\* under remove_duplicates, left no two equal records.
C3_IdempotentWithoutClampOrNewDuplicates ==
    (/\ pc = "recleaned"
     /\ (cleaning_config.method = "iqr" => df_cleaned = EnteringOutlierStep)
     /\ (cleaning_config.remove_duplicates => NoDuplicates(df_cleaned)))
    => df_recleaned = df_cleaned

\* C3 witness: a second pass over a dataset in which the first pass removed a
\* duplicate and filled a null cell.
C3_Witness ==
    /\ pc = "recleaned"
    /\ cleaning_config.remove_duplicates
    /\ NoDuplicates(df_cleaned)
    /\ Len(df_cleaned) < Len(df)
    /\ \E i \in 1..Len(df) : IsNull(df[i].id)
    /\ NoNullCell(df_cleaned, CleanCols)
    /\ df_recleaned = df_cleaned

\* C5: with method 'iqr' every non-null value of a numeric column of the output
\* lies within [Q1 - 1.5 IQR, Q3 + 1.5 IQR] of that column as it entered the
\* outlier step, is the value it had or the nearest bound, and the step removes
\* no record and touches no other column.
C5_ClampedToInputQuartileBounds ==
    pc = "cleaned" /\ cleaning_config.method = "iqr" =>
        LET in == EnteringOutlierStep
        IN /\ Len(df_cleaned) = Len(in)
           /\ \A i \in 1..Len(in) :
                /\ df_cleaned[i].nombre = in[i].nombre
                /\ IsNull(in[i].id) <=> IsNull(df_cleaned[i].id)
                /\ ~IsNull(in[i].id) =>
                     LET v == in[i].id[1]
                         w == df_cleaned[i].id[1]
                         lo == lower_bound(in, "id")
                         hi == upper_bound(in, "id")
                     IN /\ lo <= w /\ w <= hi
                        /\ v < lo => w = lo
                        /\ v > hi => w = hi
                        /\ (lo <= v /\ v <= hi) => w = v

\* C5 witness: a value below the lower bound of its column was raised to that
\* bound, and every record is still there.
C5_Witness ==
    /\ pc = "cleaned"
    /\ cleaning_config.method = "iqr"
    /\ Len(df_cleaned) = Len(EnteringOutlierStep)
    /\ \E i \in 1..Len(df_cleaned) :
          /\ ~IsNull(EnteringOutlierStep[i].id)
          /\ EnteringOutlierStep[i].id[1] < lower_bound(EnteringOutlierStep, "id")
          /\ df_cleaned[i].id[1] = lower_bound(EnteringOutlierStep, "id")

\* ---------------------------------------------------- _validate_data_types
\* validation.data_types of the configuration, as the test suite declares it.
data_types ==
    [ventas |-> [id |-> "int", fecha |-> "datetime", producto_id |-> "int",
                 cliente_id |-> "int", cantidad |-> "int", precio |-> "float"],
     productos |-> [id |-> "int", nombre |-> "str", categoria |-> "str",
                    precio |-> "float"],
     clientes |-> [id |-> "int", nombre |-> "str", email |-> "str",
                   ciudad |-> "str"]]

IsIntegral(c) == IsNull(c) \/ c[1] % Unit = 0

\* One declared column. 'int': to_numeric(...).astype('Int64') keeps the numbers
\* of an integral column and raises on a fractional one, which the inner except
\* swallows, leaving the column as it was. 'float' and 'datetime' keep a cell
\* that already is a number or a timestamp. 'str': astype(str) keeps a text and
\* turns a null cell into the text 'nan'.
ValidateColumn(rows, c, expected_type) ==
    IF expected_type = "int"
    THEN IF \A i \in 1..Len(rows) : IsIntegral(rows[i][c])
         THEN [i \in 1..Len(rows) |-> rows[i][c]]
         ELSE [i \in 1..Len(rows) |-> rows[i][c]]
    ELSE IF expected_type = "str"
    THEN [i \in 1..Len(rows) |->
            IF IsNull(rows[i][c]) THEN Some(<<"n", "a", "n">>) ELSE rows[i][c]]
    ELSE [i \in 1..Len(rows) |-> rows[i][c]]

_validate_data_types(rows, cols, table_name) ==
    LET types == data_types[table_name]
    IN [i \in 1..Len(rows) |->
          [c \in cols |->
              IF c \in DOMAIN types THEN ValidateColumn(rows, c, types[c])[i]
              ELSE rows[i][c]]]

\* --------------------------------------------------------- _transform_ventas
\* The dates of the model's data, as a CSV file or the API writes them and as
\* strftime('%Y-%m-%d %H:%M:%S') writes them; 2024-01-15 is a Monday.
IsoDates ==
    <<"2024-01-15", "2024-01-16", "2024-01-17", "2024-01-18", "2024-01-19", "2024-01-20",
      "2024-01-21", "2024-01-22", "2024-01-23", "2024-01-24", "2024-01-25">>
IsoTimestamps ==
    <<"2024-01-15 00:00:00", "2024-01-16 00:00:00", "2024-01-17 00:00:00",
      "2024-01-18 00:00:00", "2024-01-19 00:00:00", "2024-01-20 00:00:00",
      "2024-01-21 00:00:00", "2024-01-22 00:00:00", "2024-01-23 00:00:00",
      "2024-01-24 00:00:00", "2024-01-25 00:00:00">>
DayNames ==
    << <<"M", "o", "n", "d", "a", "y">>, <<"T", "u", "e", "s", "d", "a", "y">>,
       <<"W", "e", "d", "n", "e", "s", "d", "a", "y">>, <<"T", "h", "u", "r", "s", "d", "a", "y">>,
       <<"F", "r", "i", "d", "a", "y">>, <<"S", "a", "t", "u", "r", "d", "a", "y">>,
       <<"S", "u", "n", "d", "a", "y">> >>
Timestamp(i) ==
    [iso |-> IsoTimestamps[i], month |-> 1, year |-> 2024,
     day_name |-> DayNames[((i - 1) % 7) + 1]]
Calendar ==
    [s \in Range(IsoDates) \cup Range(IsoTimestamps) |->
        Timestamp(CHOOSE i \in 1..Len(IsoDates) : IsoDates[i] = s \/ IsoTimestamps[i] = s)]

\* A cell pd.to_datetime can parse: a null or a date text.
Parseable(c) == IsNull(c) \/ c[1] \in DOMAIN Calendar

\* pd.to_datetime(df[c]) without errors='coerce' raises when a cell of the
\* column cannot be parsed.
Unparseable(rows, c) == \E i \in 1..Len(rows) : ~Parseable(rows[i][c])

\* pd.to_datetime of one cell: the timestamp of a date text; a cell that cannot
\* be parsed is NaT under errors='coerce' (line 415).
to_datetime(c) == IF IsNull(c) \/ ~Parseable(c) THEN Null ELSE Some(Calendar[c[1]])

\* Series.dt.strftime('%Y-%m-%d %H:%M:%S') of a cell holding a timestamp.
strftime(c) == IF IsNull(c) THEN Null ELSE Some(c[1].iso)

Times(a, b) == IF IsNull(a) \/ IsNull(b) THEN Null ELSE Some((a[1] * b[1]) \div Unit)
AbsDiff(a, b) == IF a[1] >= b[1] THEN a[1] - b[1] ELSE b[1] - a[1]

\* abs(total - total_calculado) > threshold; false when either side is null.
ExceedsTolerance(total, calculado) ==
    /\ ~IsNull(total)
    /\ ~IsNull(calculado)
    /\ AbsDiff(total, calculado) * ToleranceDen > ToleranceNum * Unit

\* A reconciliation that trusts any supplied total.
KeepSuppliedTotal(r, cols) ==
    IF "total" \notin cols THEN Times(r.cantidad, r.precio) ELSE r.total

ReconciledTotal(r, cols) ==
    IF "total" \notin cols THEN Times(r.cantidad, r.precio)
    ELSE IF ExceedsTolerance(r.total, Times(r.cantidad, r.precio))
         THEN Times(r.cantidad, r.precio)
         ELSE r.total

VentasDerivedCols == {"mes", "año", "dia_semana", "total"}

\* Lines 89-113: the date columns and the reconciled total.
VentasBusinessRules(rows, cols) ==
    [i \in 1..Len(rows) |->
        [c \in cols \cup VentasDerivedCols |->
            LET r == rows[i]
                d == to_datetime(r.fecha)
            IN CASE c = "fecha" -> d
                 [] c = "mes" -> IF IsNull(d) THEN Null ELSE Some(d[1].month * Unit)
                 [] c = "año" -> IF IsNull(d) THEN Null ELSE Some(d[1].year * Unit)
                 [] c = "dia_semana" -> IF IsNull(d) THEN Null ELSE Some(d[1].day_name)
                 [] c = "total" -> ReconciledTotal(r, cols)
                 [] OTHER -> r[c]]]

\* Lines 101 and 104-105: cantidad * precio raises TypeError on a text cantidad
\* (precio is a float column), and total - total_calculado on what a text
\* precio yields.
NotMultipliable(rows, cols) ==
    \E i \in 1..Len(rows) :
        \/ IsGarbled(rows[i].cantidad)
        \/ IsGarbled(rows[i].precio) /\ "total" \in cols

_transform_ventas(rows, cols, cfg) ==
    IF ~({"fecha", "cantidad", "precio"} \subseteq cols) THEN Raised
    ELSE IF Unparseable(rows, "fecha") \/ NotMultipliable(rows, cols) THEN Raised
    ELSE LET out == cols \cup VentasDerivedCols
             ruled == VentasBusinessRules(rows, cols)
             cleaned == _clean_dataframe(ruled, out, NumericOf(out), cfg)
         IN Returned(_validate_data_types(cleaned, out, "ventas"), out)

\* ------------------------------------------- scenario: _transform_ventas
VentasCols == {"id", "fecha", "producto_id", "cliente_id", "cantidad", "precio", "total"}
VentasRecords ==
    [id : {Some(1 * Unit)},
     fecha : {Some("2024-01-15")},
     producto_id : {Some(101 * Unit)},
     cliente_id : {Some(1001 * Unit)},
     cantidad : {Some(1 * Unit), Some(2 * Unit)},
     precio : {Some(10 * Unit)},
     total : {Null, Some(20 * Unit), Some(999 * Unit)}]

InitVentas ==
    /\ pc = "input"
    /\ cleaning_config \in Policies
    /\ columns \in {VentasCols, VentasCols \ {"total"}}
    /\ df = <<>>
    /\ df_transformed = NotCalled
    /\ df_cleaned = <<>>
    /\ df_recleaned = <<>>
    /\ transformed_data = <<>>
    /\ derived_tables = <<>>
    /\ PipelineIdle

\* The caller builds the sales DataFrame one record at a time.
AppendVenta ==
    /\ pc = "input"
    /\ Len(df) < MaxVentas
    /\ \E r \in VentasRecords :
          /\ "total" \notin columns => IsNull(r.total)
          /\ df' = Append(df, [c \in columns |-> r[c]])
    /\ UNCHANGED <<pc, cleaning_config, columns, df_transformed, df_cleaned, df_recleaned, aggregationVars>>

TransformVentas ==
    /\ pc = "input"
    /\ df_transformed' = _transform_ventas(df, columns, cleaning_config)
    /\ pc' = "transformed"
    /\ UNCHANGED <<cleaning_config, columns, df, df_cleaned, df_recleaned, aggregationVars>>

NextVentas == AppendVenta \/ TransformVentas

SpecVentas == InitVentas /\ [][NextVentas]_vars

\* ---------------------------------------------------------------- claim C4
\* abs(total - cantidad * precio) <= 0.01 on one record.
Reconciled(r) ==
    /\ ~IsNull(r.total) /\ ~IsNull(r.cantidad) /\ ~IsNull(r.precio)
    /\ LET t == r.total[1] * Unit
           q == r.cantidad[1] * r.precio[1]
       IN (IF t >= q THEN t - q ELSE q - t) <= (ToleranceNum * Unit * Unit) \div ToleranceDen

\* C4 as stated: every record of the output of _transform_ventas, after the
\* reconciliation, cleaning and type validation, has
\* abs(total - cantidad * precio) <= 0.01.
C4_OutputTotalsReconciled ==
    pc = "transformed" /\ ~df_transformed.raised =>
        \A i \in 1..Len(df_transformed.rows) : Reconciled(df_transformed.rows[i])

\* The scenario of C4 that the code does satisfy: the single record
\* {cantidad: 2, precio: 10.00, total: 999.00} comes out with total 20.00.
C4_ScenarioTwo ==
    /\ pc = "transformed"
    /\ Len(df) = 1
    /\ df[1].cantidad = Some(2 * Unit)
    /\ "total" \in columns
    /\ df[1].total = Some(999 * Unit)
    => df_transformed.rows[1].total = Some(20 * Unit)

\* ------------------------------------------------------------ text methods
\* The cased letters the model's texts are written with, upper case and lower
\* case position by position.
UpperCase ==
    <<"A", "B", "C", "D", "E", "F", "G", "H", "I", "J", "K", "L", "M", "N", "O", "P",
      "Q", "R", "S", "T", "U", "V", "W", "X", "Y", "Z", "Á", "É", "Í", "Ñ", "Ó", "Ú">>
LowerCase ==
    <<"a", "b", "c", "d", "e", "f", "g", "h", "i", "j", "k", "l", "m", "n", "o", "p",
      "q", "r", "s", "t", "u", "v", "w", "x", "y", "z", "á", "é", "í", "ñ", "ó", "ú">>
IndexIn(s, ch) == CHOOSE i \in 1..Len(s) : s[i] = ch
IsLetter(ch) == ch \in Range(UpperCase) \/ ch \in Range(LowerCase)
LowerChar(ch) == IF ch \in Range(UpperCase) THEN LowerCase[IndexIn(UpperCase, ch)] ELSE ch
UpperChar(ch) == IF ch \in Range(LowerCase) THEN UpperCase[IndexIn(LowerCase, ch)] ELSE ch

\* str.lower()
lower(t) == [i \in 1..Len(t) |-> LowerChar(t[i])]

\* str.strip(): leading and trailing blanks removed.
strip(t) ==
    LET I == {i \in 1..Len(t) : t[i] # " "}
    IN IF I = {} THEN <<>> ELSE SubSeq(t, MinOf(I), MaxOf(I))

\* str.title(): the first letter of every run of letters in upper case, the
\* others in lower case.
title(t) ==
    [i \in 1..Len(t) |->
        IF i = 1 \/ ~IsLetter(t[i - 1]) THEN UpperChar(t[i]) ELSE LowerChar(t[i])]

\* A .str method applied to a cell: a null cell stays null.
OnText(Op(_), c) == IF IsNull(c) THEN Null ELSE Some(Op(c[1]))

\* ------------------------------------------------------- _transform_clientes
\* Series.str.contains('@', na=True): a null email passes the filter.
ContainsAtOrNull(c) == IsNull(c) \/ \E i \in 1..Len(c[1]) : c[1][i] = "@"

\* Series.str.contains('@', na=False)
contains_at(c) == ~IsNull(c) /\ \E i \in 1..Len(c[1]) : c[1][i] = "@"

NormalizeCliente(r) ==
    [c \in DOMAIN r |->
        CASE c = "nombre" -> OnText(title, OnText(strip, r.nombre))
          [] c = "email" -> OnText(strip, OnText(lower, r.email))
          [] c = "ciudad" -> OnText(title, OnText(strip, r.ciudad))
          [] c = "fecha_registro" -> to_datetime(r.fecha_registro)
          [] OTHER -> r[c]]

\* Lines 180-196: the normalised records whose email contains '@', in order.
ClientesBusinessRules(rows) ==
    LET norm == [i \in 1..Len(rows) |-> NormalizeCliente(rows[i])]
    IN Keep(norm, {i \in 1..Len(norm) : contains_at(norm[i].email)})

ClientesTextCols == {"nombre", "email", "ciudad"}

_transform_clientes(rows, cols, cfg) ==
    IF ~(ClientesTextCols \subseteq cols) THEN Raised
    ELSE IF "fecha_registro" \in cols
            /\ Unparseable(Keep(rows, {i \in 1..Len(rows) :
                                          contains_at(NormalizeCliente(rows[i]).email)}),
                           "fecha_registro")
    THEN Raised
    ELSE LET ruled == ClientesBusinessRules(rows)
             cleaned == _clean_dataframe(ruled, cols, NumericOf(cols), cfg)
         IN Returned(_validate_data_types(cleaned, cols, "clientes"), cols)

\* ------------------------------------------ scenario: _transform_clientes
\* The email column is a text (object) column: its cells are texts or null.
ClientesCols == {"id", "nombre", "email", "ciudad"}
ClientesRecords ==
    [id : {Some(1 * Unit)},
     nombre : {Some(<<"a", "b">>), Some(<<"A", "b">>)},
     email : {Null, Some(<<"a", "@", "b">>), Some(<<"A", "@", "b", " ">>),
              Some(<<"B", "A", "b">>)},
     ciudad : {Some(<<"r", "a">>)}]

InitClientes ==
    /\ pc = "input"
    /\ cleaning_config \in Policies
    /\ columns = ClientesCols
    /\ df = <<>>
    /\ df_transformed = NotCalled
    /\ df_cleaned = <<>>
    /\ df_recleaned = <<>>
    /\ transformed_data = <<>>
    /\ derived_tables = <<>>
    /\ PipelineIdle

\* The caller builds the customers DataFrame one record at a time.
AppendCliente ==
    /\ pc = "input"
    /\ Len(df) < MaxClientes
    /\ \E r \in ClientesRecords : df' = Append(df, r)
    /\ UNCHANGED <<pc, cleaning_config, columns, df_transformed, df_cleaned, df_recleaned, aggregationVars>>

TransformClientes ==
    /\ pc = "input"
    /\ df_transformed' = _transform_clientes(df, columns, cleaning_config)
    /\ pc' = "transformed"
    /\ UNCHANGED <<cleaning_config, columns, df, df_cleaned, df_recleaned, aggregationVars>>

NextClientes == AppendCliente \/ TransformClientes

SpecClientes == InitClientes /\ [][NextClientes]_vars

\* --------------------------------------------------------------- claim C10
HasAt(c) == ~IsNull(c) /\ "@" \in Range(c[1])
WithAt(rows) == {i \in 1..Len(rows) : HasAt(rows[i].email)}

\* The output holds one record per input record whose email contains '@', in
\* input order, and every output email contains '@'.
ExactlyTheRecordsWithAt ==
    /\ ~df_transformed.raised
    /\ Len(df_transformed.rows) = Cardinality(WithAt(df))
    /\ Len(df_transformed.rows) = Len(df) - Cardinality((1..Len(df)) \ WithAt(df))
    /\ \A i \in 1..Len(df_transformed.rows) : HasAt(df_transformed.rows[i].email)
    /\ [i \in 1..Len(df_transformed.rows) |-> df_transformed.rows[i].email]
         = Keep([i \in 1..Len(df) |-> OnText(strip, OnText(lower, df[i].email))],
                WithAt(df))

Table(cols, rows) == [columns |-> cols, rows |-> rows]

\* The characters of the model's texts in code point order: blank, '@', the
\* ASCII capitals, the ASCII small letters, then the accented letters.
Ord(ch) ==
    IndexIn(<<" ", "@">> \o SubSeq(UpperCase, 1, 26) \o SubSeq(LowerCase, 1, 26)
            \o SubSeq(UpperCase, 27, 32) \o SubSeq(LowerCase, 27, 32), ch)

\* Lexicographic order of two texts.
RECURSIVE TextLeq(_, _)
TextLeq(s, t) ==
    IF s = <<>> THEN TRUE
    ELSE IF t = <<>> THEN FALSE
    ELSE IF s[1] # t[1] THEN Ord(s[1]) < Ord(t[1])
    ELSE TextLeq(Tail(s), Tail(t))

NumLeq(x, y) == x <= y

\* The values of S in ascending order.
Sorted(S, Leq(_, _)) ==
    [g \in 1..Cardinality(S) |->
        CHOOSE x \in S : Cardinality({y \in S : y # x /\ Leq(y, x)}) = g - 1]

\* sum of a column over the rows at I, nulls skipped.
RECURSIVE SumOver(_, _, _)
SumOver(rows, c, I) ==
    IF I = {} THEN 0
    ELSE LET i == CHOOSE x \in I : TRUE
         IN (IF IsNull(rows[i][c]) THEN 0 ELSE rows[i][c][1]) + SumOver(rows, c, I \ {i})

\* DataFrame.groupby(key).agg({'cantidad': 'sum', 'total': 'sum', 'id': 'count'}):
\* one row per non-null key, in ascending key order; `name` is what the count
\* column is renamed to.
GroupKeys(rows, key) == {rows[i][key][1] : i \in NonNull(rows, key)}

AggregateGroup(rows, key, k, name) ==
    LET I == {i \in 1..Len(rows) : rows[i][key] = Some(k)}
    IN [n \in {"key", "cantidad", "total", name} |->
          CASE n = "key" -> Some(k)
            [] n = "cantidad" -> Some(SumOver(rows, "cantidad", I))
            [] n = "total" -> Some(SumOver(rows, "total", I))
            [] OTHER -> Some(Cardinality({i \in I : ~IsNull(rows[i].id)}) * Unit)]

groupby_agg(rows, key, name, Leq(_, _)) ==
    LET keys == Sorted(GroupKeys(rows, key), Leq)
    IN [g \in 1..Len(keys) |-> AggregateGroup(rows, key, keys[g], name)]

\* The concatenation of a sequence of sequences.
RECURSIVE Flatten(_)
Flatten(ss) == IF ss = <<>> THEN <<>> ELSE ss[1] \o Flatten(Tail(ss))

EnrichedRow(group, name, d, extra) ==
    [n \in {"cantidad", "total", name, "id", "nombre", extra} |->
        CASE n = "id" -> d.id
          [] n = "nombre" -> d.nombre
          [] n = extra -> d[extra]
          [] OTHER -> group[n]]

\* DataFrame.merge(dim[['id', 'nombre', extra]], left_index=True, right_on='id'),
\* how='inner' by default: one row per pair (group, dimension row with that id),
\* in the order of the groups; a group with no dimension row yields no row.
merge(groups, name, dim, extra) ==
    Flatten([g \in 1..Len(groups) |->
        LET hits == Keep(dim, {j \in 1..Len(dim) : dim[j].id = groups[g].key})
        IN [h \in 1..Len(hits) |-> EnrichedRow(groups[g], name, hits[h], extra)]])

\* ventas.merge(productos[['id', 'categoria']], left_on='producto_id',
\* right_on='id', suffixes=('', '_producto')): the sales with a product, each
\* with the product's category.
ventas_con_categoria(ventas, productos) ==
    Flatten([i \in 1..Len(ventas) |->
        LET hits == Keep(productos,
                         {j \in 1..Len(productos) : productos[j].id = ventas[i].producto_id})
        IN [h \in 1..Len(hits) |->
              [n \in {"id", "cantidad", "total", "categoria"} |->
                  IF n = "categoria" THEN hits[h].categoria ELSE ventas[i][n]]]])

AggregateCols == {"cantidad", "total", "id"}

\* Each rollup is built when its inputs are in the mapping; a missing column
\* raises KeyError, and the except clause returns the tables built before it.
_create_derived_tables(data) ==
    LET has(n) == n \in DOMAIN data
        cols(n) == data[n].columns
        producto_ok == /\ ({"producto_id"} \cup AggregateCols) \subseteq cols("ventas")
                       /\ {"id", "nombre", "categoria"} \subseteq cols("productos")
        cliente_ok == /\ ({"cliente_id"} \cup AggregateCols) \subseteq cols("ventas")
                      /\ {"id", "nombre", "ciudad"} \subseteq cols("clientes")
        por_producto ==
            merge(groupby_agg(data["ventas"].rows, "producto_id", "num_ventas", NumLeq),
                  "num_ventas", data["productos"].rows, "categoria")
        por_cliente ==
            merge(groupby_agg(data["ventas"].rows, "cliente_id", "num_compras", NumLeq),
                  "num_compras", data["clientes"].rows, "ciudad")
        por_categoria ==
            groupby_agg(ventas_con_categoria(data["ventas"].rows, data["productos"].rows),
                        "categoria", "num_ventas", TextLeq)
        first == IF has("ventas") /\ has("productos")
                 THEN IF producto_ok THEN [ok |-> TRUE, names |-> {"ventas_por_producto"}]
                      ELSE [ok |-> FALSE, names |-> {}]
                 ELSE [ok |-> TRUE, names |-> {}]
        second == IF ~first.ok THEN first
                  ELSE IF has("ventas") /\ has("clientes")
                  THEN IF cliente_ok
                       THEN [ok |-> TRUE, names |-> first.names \cup {"ventas_por_cliente"}]
                       ELSE [ok |-> FALSE, names |-> first.names]
                  ELSE first
        third == IF ~second.ok THEN second
                 ELSE IF has("ventas") /\ has("productos")
                 THEN [ok |-> TRUE, names |-> second.names \cup {"ventas_por_categoria"}]
                 ELSE second
    IN [n \in third.names |->
          CASE n = "ventas_por_producto" -> por_producto
            [] n = "ventas_por_cliente" -> por_cliente
            [] OTHER -> por_categoria]

\* ------------------------------------- scenario: _create_derived_tables
SalesCols == {"id", "producto_id", "cliente_id", "cantidad", "total"}
SalesRecords ==
    [id : {Some(1 * Unit)},
     producto_id : {Some(101 * Unit), Some(102 * Unit)},
     cliente_id : {Some(1001 * Unit), Some(1002 * Unit)},
     cantidad : {Some(2 * Unit)},
     total : {Some(20 * Unit)}]
ProductCols == {"id", "nombre", "categoria"}
ProductRecords ==
    [id : {Some(101 * Unit), Some(102 * Unit)},
     nombre : {Some(<<"A", "b">>)},
     categoria : {Some(<<"R", "a">>), Some(<<"B", "a">>)}]
CustomerCols == {"id", "nombre", "ciudad"}
CustomerRecords ==
    [id : {Some(1001 * Unit)},
     nombre : {Some(<<"A", "b">>)},
     ciudad : {Some(<<"R", "a">>)}]

RecordsOf == [ventas |-> SalesRecords, productos |-> ProductRecords, clientes |-> CustomerRecords]
ColumnsOf == [ventas |-> SalesCols, productos |-> ProductCols, clientes |-> CustomerCols]
MaxRowsOf == [ventas |-> MaxFact, productos |-> MaxDim, clientes |-> MaxDim]

InitDerived ==
    /\ pc = "input"
    /\ \E present \in SUBSET {"ventas", "productos", "clientes"} :
          transformed_data = [n \in present |-> Table(ColumnsOf[n], <<>>)]
    /\ derived_tables = <<>>
    /\ cleaning_config = [remove_duplicates |-> TRUE, strategy |-> "forward", method |-> "none"]
    /\ df = <<>>
    /\ df_cleaned = <<>>
    /\ df_recleaned = <<>>
    /\ columns = {}
    /\ df_transformed = NotCalled
    /\ PipelineIdle

\* transform_all has put one more record in one of the transformed tables.
AppendTransformed ==
    /\ pc = "input"
    /\ \E n \in DOMAIN transformed_data :
          /\ Len(transformed_data[n].rows) < MaxRowsOf[n]
          /\ \E r \in RecordsOf[n] :
                transformed_data' =
                    [transformed_data EXCEPT
                        ![n].rows = Append(@, [c \in transformed_data[n].columns |-> r[c]])]
    /\ UNCHANGED <<pc, derived_tables, cleaning_config, methodVars>>

CreateDerivedTables ==
    /\ pc = "input"
    /\ derived_tables' = _create_derived_tables(transformed_data)
    /\ pc' = "derived"
    /\ UNCHANGED <<transformed_data, cleaning_config, methodVars>>

NextDerived == AppendTransformed \/ CreateDerivedTables

SpecDerived == InitDerived /\ [][NextDerived]_vars

\* ---------------------------------------------------------------- claim C1
\* The rollup `name` has exactly one row for every key of column `key` of
\* ventas, carrying the group's aggregates; a key without a row in the dimension
\* table `dim` has null enrichment columns.
OneRowPerGroup(name, key, dim, extra) ==
    name \in DOMAIN derived_tables =>
        \A k \in GroupKeys(transformed_data["ventas"].rows, key) :
            LET out == derived_tables[name]
                rows == {i \in 1..Len(out) : out[i].id = Some(k)}
                I == {i \in 1..Len(transformed_data["ventas"].rows) :
                         transformed_data["ventas"].rows[i][key] = Some(k)}
                matched == \E j \in 1..Len(transformed_data[dim].rows) :
                              transformed_data[dim].rows[j].id = Some(k)
            IN /\ Cardinality(rows) = 1
               /\ \A i \in rows :
                    /\ out[i].total = Some(SumOver(transformed_data["ventas"].rows, "total", I))
                    /\ out[i].cantidad = Some(SumOver(transformed_data["ventas"].rows, "cantidad", I))
                    /\ ~matched => IsNull(out[i].nombre) /\ IsNull(out[i][extra])

\* C1 as stated: every group key of the sales yields one row of
\* ventas_por_producto and of ventas_por_cliente; a group without a record in
\* productos / clientes keeps its aggregates, with null nombre, categoria, ciudad.
C1_UnmatchedGroupsKept ==
    pc = "derived" =>
        /\ OneRowPerGroup("ventas_por_producto", "producto_id", "productos", "categoria")
        /\ OneRowPerGroup("ventas_por_cliente", "cliente_id", "clientes", "ciudad")

\* What the code does with a group that has no dimension record: no row.
C1_UnmatchedGroupsDropped ==
    pc = "derived" /\ "ventas_por_producto" \in DOMAIN derived_tables =>
        \A k \in GroupKeys(transformed_data["ventas"].rows, "producto_id") :
            (\A j \in 1..Len(transformed_data["productos"].rows) :
                transformed_data["productos"].rows[j].id # Some(k))
            => \A i \in 1..Len(derived_tables["ventas_por_producto"]) :
                  derived_tables["ventas_por_producto"][i].id # Some(k)

\* ======================================================== the pipeline
\* ----------------------------------------------------------- DataFrames
\* A DataFrame with its dtypes: "number" (int64 / float64), "text" (object),
\* "bool", "datetime" (datetime64[ns]).
Frame(dtypes, rows) == [columns |-> DOMAIN dtypes, dtypes |-> dtypes, rows |-> rows]
Numeric(frame) == {c \in frame.columns : frame.dtypes[c] = "number"}
empty(frame) == frame.rows = <<>>

\* A dict of DataFrames: its items in insertion order.
Item(name, frame) == [name |-> name, df |-> frame]
keys(d) == [i \in 1..Len(d) |-> d[i].name]
Has(d, name) == \E i \in 1..Len(d) : d[i].name = name
Get(d, name) == d[CHOOSE i \in 1..Len(d) : d[i].name = name].df
setitem(d, name, frame) ==
    IF Has(d, name)
    THEN [i \in 1..Len(d) |-> IF d[i].name = name THEN Item(name, frame) ELSE d[i]]
    ELSE Append(d, Item(name, frame))

\* dict.update: an existing key keeps its position and takes the new value, a
\* new key goes to the end.
RECURSIVE update(_, _)
update(d, e) == IF e = <<>> THEN d ELSE update(setitem(d, e[1].name, e[1].df), Tail(e))

\* ------------------------------------------------------ _extract_api_data
CategoriasNombre ==
    << <<"E", "l", "e", "c", "t", "r", "ó", "n", "i", "c", "o", "s">>,
       <<"A", "c", "c", "e", "s", "o", "r", "i", "o", "s">>,
       <<"R", "o", "p", "a">>,
       <<"H", "o", "g", "a", "r">>,
       <<"D", "e", "p", "o", "r", "t", "e", "s">> >>
CategoriasDescripcion ==
    << <<"P", "r", "o", "d", "u", "c", "t", "o", "s", " ", "e", "l", "e", "c", "t", "r",
         "ó", "n", "i", "c", "o", "s", " ", "y", " ", "t", "e", "c", "n", "o", "l", "ó",
         "g", "i", "c", "o", "s">>,
       <<"A", "c", "c", "e", "s", "o", "r", "i", "o", "s", " ", "p", "a", "r", "a", " ",
         "d", "i", "s", "p", "o", "s", "i", "t", "i", "v", "o", "s">>,
       <<"R", "o", "p", "a", " ", "y", " ", "m", "o", "d", "a">>,
       <<"P", "r", "o", "d", "u", "c", "t", "o", "s", " ", "p", "a", "r", "a", " ", "e",
         "l", " ", "h", "o", "g", "a", "r">>,
       <<"A", "r", "t", "í", "c", "u", "l", "o", "s", " ", "d", "e", "p", "o", "r", "t",
         "i", "v", "o", "s">> >>
CategoriasActivo == <<TRUE, TRUE, FALSE, TRUE, FALSE>>
categorias_data ==
    Frame([id |-> "number", nombre |-> "text", descripcion |-> "text", activo |-> "bool"],
          [i \in 1..5 |->
              [id |-> Some(i * Unit), nombre |-> Some(CategoriasNombre[i]),
               descripcion |-> Some(CategoriasDescripcion[i]),
               activo |-> Some(CategoriasActivo[i])]])

InventarioStockActual == <<45, 25, 85, 20, 180, 10, 65, 130, 8, 35, 50>>
InventarioStockMinimo == <<10, 5, 20, 5, 50, 3, 15, 30, 2, 10, 15>>
inventario_data ==
    Frame([producto_id |-> "number", stock_actual |-> "number", stock_minimo |-> "number",
           ultima_actualizacion |-> "text"],
          [i \in 1..11 |->
              [producto_id |-> Some((100 + i) * Unit),
               stock_actual |-> Some(InventarioStockActual[i] * Unit),
               stock_minimo |-> Some(InventarioStockMinimo[i] * Unit),
               ultima_actualizacion |-> Some(IsoDates[i])]])

_extract_api_data ==
    <<Item("categorias", categorias_data), Item("inventario", inventario_data)>>

\* ----------------------------------------- the other kind-specific methods
SinDescripcion == <<"S", "i", "n", " ", "d", "e", "s", "c", "r", "i", "p", "c", "i", "ó", "n">>
fillna(c, value) == IF IsNull(c) THEN Some(value) ELSE c

\* pd.to_numeric(errors='coerce'): a number or a null stays, a text that is not
\* a number becomes null.
to_numeric(c) == IF IsGarbled(c) THEN Null ELSE c

\* A mask that keeps every record whose price is not negative.
NotNegative(c) == ~IsNull(c) /\ c[1] >= 0

\* df['precio'] > 0: false for a null price.
positive(c) == ~IsNull(c) /\ c[1] > 0

\* Lines 139-149 of _transform_productos and 222-229 of _transform_categorias:
\* the normalised texts of one record.
NormalizeTexts(r, titled) ==
    [c \in DOMAIN r |->
        CASE c \in titled -> OnText(title, OnText(strip, r[c]))
          [] c = "descripcion" -> fillna(OnText(strip, r[c]), SinDescripcion)
          [] OTHER -> r[c]]

\* Lines 140-154: the texts normalised and the price as a number.
NormalizeProducto(r) ==
    [NormalizeTexts(r, {"nombre", "categoria"}) EXCEPT !.precio = to_numeric(@)]

\* Lines 140-155: the normalised records whose price is positive, in order.
ProductosBusinessRules(rows) ==
    LET norm == [i \in 1..Len(rows) |-> NormalizeProducto(rows[i])]
    IN Keep(norm, {i \in 1..Len(norm) : positive(norm[i].precio)})

_transform_productos(rows, cols, cfg) ==
    IF ~({"nombre", "categoria", "precio"} \subseteq cols) THEN Raised
    ELSE LET priced == ProductosBusinessRules(rows)
             cleaned == _clean_dataframe(priced, cols, NumericOf(cols), cfg)
         IN Returned(_validate_data_types(cleaned, cols, "productos"), cols)

\* Lines 224-230.
CategoriasBusinessRules(rows) ==
    [i \in 1..Len(rows) |-> NormalizeTexts(rows[i], {"nombre"})]

_transform_categorias(rows, cols, numcols, cfg) ==
    IF "nombre" \notin cols THEN Raised
    ELSE Returned(_clean_dataframe(CategoriasBusinessRules(rows), cols, numcols, cfg), cols)

\* stock_actual <= stock_minimo; false when either side is null.
stock_bajo(r) ==
    Some(/\ ~IsNull(r.stock_actual)
         /\ ~IsNull(r.stock_minimo)
         /\ r.stock_actual[1] <= r.stock_minimo[1])

\* Lines 255-263: the date parsed, the stocks as numbers, and the flag.
InventarioBusinessRules(rows, cols) ==
    [i \in 1..Len(rows) |->
        [c \in cols \cup {"stock_bajo"} |->
            CASE c = "ultima_actualizacion" -> to_datetime(rows[i][c])
              [] c = "stock_bajo" -> stock_bajo(rows[i])
              [] c \in {"stock_actual", "stock_minimo"} -> to_numeric(rows[i][c])
              [] OTHER -> rows[i][c]]]

_transform_inventario(rows, cols, numcols, cfg) ==
    IF ~({"stock_actual", "stock_minimo"} \subseteq cols) THEN Raised
    ELSE IF "ultima_actualizacion" \in cols /\ Unparseable(rows, "ultima_actualizacion")
    THEN Raised
    ELSE LET out == cols \cup {"stock_bajo"}
         IN Returned(_clean_dataframe(InventarioBusinessRules(rows, cols), out,
                                      numcols \ {"stock_bajo"}, cfg), out)

_transform_generic(rows, cols, numcols, cfg) ==
    Returned(_clean_dataframe(rows, cols, numcols, cfg), cols)

\* ------------------------------------------------- copies and assignments
\* df.copy() at the top of a method: the column assignments the method makes
\* afterwards are made on the copy and leave `written` in it; the object the
\* method was given keeps the value `given`.
Alias(given, written) == written

copy(given, written) == given

\* The value the column assignments of a kind-specific method leave in the
\* object they are made on, up to the first statement that binds
\* df_transformed to a new object (a row filter, drop, _clean_dataframe).
\* _transform_ventas: lines 92-110; a missing column raises KeyError after the
\* assignments above it.
VentasAssigned(rows, cols) ==
    IF "fecha" \notin cols \/ Unparseable(rows, "fecha") THEN rows
    ELSE LET ruled == VentasBusinessRules(rows, cols \cup {"cantidad", "precio"})
             dated == {"fecha", "mes", "año", "dia_semana"}
         IN [i \in 1..Len(rows) |->
               IF ~({"cantidad", "precio"} \subseteq cols) \/ NotMultipliable(rows, cols)
               THEN [c \in cols \cup dated |->
                        IF c \in dated
                        THEN VentasBusinessRules(rows, {"fecha"})[i][c] ELSE rows[i][c]]
               ELSE IF "total" \notin cols THEN ruled[i]
               ELSE [c \in cols \cup VentasDerivedCols
                               \cup {"total_calculado", "total_diferencia"} |->
                        CASE c = "total_calculado" -> Times(rows[i].cantidad, rows[i].precio)
                          [] c = "total_diferencia" ->
                                IF IsNull(rows[i].total)
                                   \/ IsNull(Times(rows[i].cantidad, rows[i].precio))
                                THEN Null
                                ELSE Some(AbsDiff(rows[i].total,
                                                  Times(rows[i].cantidad, rows[i].precio)))
                          [] OTHER -> ruled[i][c]]]

\* _transform_clientes: lines 183-187, nombre and email; line 188 filters.
ClientesAssigned(rows, cols) ==
    [i \in 1..Len(rows) |->
        [c \in DOMAIN rows[i] |->
            IF c \in {"nombre", "email"} \cap cols
            THEN NormalizeCliente(rows[i])[c] ELSE rows[i][c]]]

Assigned(table_name, frame) ==
    CASE table_name = "ventas" -> VentasAssigned(frame.rows, frame.columns)
      [] table_name = "productos" /\ {"nombre", "categoria", "precio"} \subseteq frame.columns ->
            [i \in 1..Len(frame.rows) |-> NormalizeProducto(frame.rows[i])]
      [] table_name = "clientes" -> ClientesAssigned(frame.rows, frame.columns)
      [] table_name = "categorias" /\ "nombre" \in frame.columns ->
            CategoriasBusinessRules(frame.rows)
      [] /\ table_name = "inventario"
         /\ {"stock_actual", "stock_minimo"} \subseteq frame.columns
         /\ ~("ultima_actualizacion" \in frame.columns
               /\ Unparseable(frame.rows, "ultima_actualizacion")) ->
            InventarioBusinessRules(frame.rows, frame.columns)
      [] OTHER -> frame.rows

\* The DataFrame a method was given, as it is once the method has returned or
\* raised. Lines 89, 138, 180, 221, 252: df_transformed = df.copy().
GivenToTransform(table_name, frame) ==
    [frame EXCEPT !.rows = copy(frame.rows, Assigned(table_name, frame))]

\* Line 310: df_cleaned = df.copy(); only the constant fill (lines 333-337)
\* assigns columns, and drop_duplicates has bound df_cleaned to a new object
\* before it when remove_duplicates is on.
GivenToClean(rows, cols, numcols, cfg) ==
    copy(rows, IF ~cfg.remove_duplicates /\ cfg.strategy \notin {"forward", "backward"}
               THEN fill_constant(rows, cols, numcols) ELSE rows)

\* Line 362: df_clean = df.copy(); lines 382-383 assign the clamped values.
GivenToOutliers(rows, cols, numcols) ==
    copy(rows, _handle_outliers_iqr(rows, cols, numcols))

\* Line 403: df_validated = df.copy(); lines 411-417 assign the columns.
GivenToValidate(rows, cols, table_name) ==
    copy(rows, _validate_data_types(rows, cols, table_name))

\* raw_data once transform_all has returned or raised: the mapping is only
\* read (line 46), and each DataFrame is handed to one method.
GivenToTransformAll(raw) ==
    [i \in 1..Len(raw) |-> Item(raw[i].name, GivenToTransform(raw[i].name, raw[i].df))]

\* ------------------------------------------------------------ transform_all
\* The dtype of each column of the DataFrame a kind-specific method returns.
dtypes_after(table_name, cols, dtypes) ==
    [c \in cols |->
        CASE table_name = "ventas" /\ c = "fecha" -> "datetime"
          [] table_name = "ventas" /\ c \in {"mes", "año", "total"} -> "number"
          [] table_name = "ventas" /\ c = "dia_semana" -> "text"
          [] table_name = "clientes" /\ c = "fecha_registro" -> "datetime"
          [] table_name = "inventario" /\ c = "ultima_actualizacion" -> "datetime"
          [] table_name = "inventario" /\ c = "stock_bajo" -> "bool"
          [] OTHER -> dtypes[c]]

\* Lines 52-64: the method that transform_all picks for a table.
TransformTable(table_name, frame, cfg) ==
    LET rows == frame.rows
        cols == frame.columns
    IN CASE table_name = "ventas" -> _transform_ventas(rows, cols, cfg)
         [] table_name = "productos" -> _transform_productos(rows, cols, cfg)
         [] table_name = "clientes" -> _transform_clientes(rows, cols, cfg)
         [] table_name = "categorias" -> _transform_categorias(rows, cols, Numeric(frame), cfg)
         [] table_name = "inventario" -> _transform_inventario(rows, cols, Numeric(frame), cfg)
         [] OTHER -> _transform_generic(rows, cols, Numeric(frame), cfg)

\* The loop of lines 51-67: the tables transformed so far, in the order of
\* raw_data; the first method that raises ends it.
RECURSIVE TransformEach(_, _, _)
TransformEach(raw, done, cfg) ==
    IF raw = <<>> THEN Returns(done)
    ELSE LET out == TransformTable(raw[1].name, raw[1].df, cfg)
         IN IF out.raised THEN Raises
            ELSE TransformEach(Tail(raw),
                     setitem(done, raw[1].name,
                             Frame(dtypes_after(raw[1].name, out.columns, raw[1].df.dtypes),
                                   out.rows)),
                     cfg)

\* The rollups as DataFrames, in the order _create_derived_tables builds them;
\* the group key of ventas_por_categoria is its index, not a column.
DerivedNames == <<"ventas_por_producto", "ventas_por_cliente", "ventas_por_categoria">>
DerivedDtypes ==
    [ventas_por_producto |->
        [cantidad |-> "number", total |-> "number", num_ventas |-> "number",
         id |-> "number", nombre |-> "text", categoria |-> "text"],
     ventas_por_cliente |->
        [cantidad |-> "number", total |-> "number", num_compras |-> "number",
         id |-> "number", nombre |-> "text", ciudad |-> "text"],
     ventas_por_categoria |->
        [cantidad |-> "number", total |-> "number", num_ventas |-> "number"]]
DerivedItems(data) ==
    LET derived == _create_derived_tables([n \in Range(keys(data)) |-> Get(data, n)])
        names == SelectSeq(DerivedNames, LAMBDA n : n \in DOMAIN derived)
    IN [i \in 1..Len(names) |-> Item(names[i], Frame(DerivedDtypes[names[i]], derived[names[i]]))]

transform_all(raw_data_, cfg) ==
    LET each == TransformEach(raw_data_, <<>>, cfg)
    IN IF each.raised THEN Raises
       ELSE Returns(update(each.data, DerivedItems(each.data)))

\* ------------------------------------------------------------ DataExtractor
\* A file of the raw directory: its stem, whether pd.read_csv can read it, and
\* the DataFrame it yields.
CsvFile(stem, readable, frame) == [stem |-> stem, readable |-> readable, df |-> frame]

\* Lines 83-104: the files in the order glob lists them; a file that cannot be
\* read or has no record is skipped.
_extract_csv_files(files) ==
    LET kept == SelectSeq(files, LAMBDA f : f.readable /\ ~empty(f.df))
    IN [i \in 1..Len(kept) |-> Item(kept[i].stem, kept[i].df)]

\* Lines 172-209: no file, nothing extracted; a file SQLite cannot read raises
\* (the outer except re-raises); otherwise every table that has records.
_extract_database_data(db) ==
    IF db.state = "absent" THEN Returns(<<>>)
    ELSE IF db.state = "corrupt" THEN Raises
    ELSE Returns(SelectSeq(db.tables, LAMBDA t : ~empty(t.df)))

\* An extraction in which the CSV files are merged last.
ExtractCsvLast(files, db) ==
    LET from_db == _extract_database_data(db)
    IN IF from_db.raised THEN Raises
       ELSE Returns(update(update(from_db.data, _extract_api_data),
                           _extract_csv_files(files)))

extract_all(files, db) ==
    LET from_db == _extract_database_data(db)
    IN IF from_db.raised THEN Raises
       ELSE Returns(update(update(_extract_csv_files(files), _extract_api_data),
                           from_db.data))

\* validation.required_columns of the configuration, as the test suite declares it.
required_columns ==
    [ventas |-> {"id", "fecha", "producto_id", "cliente_id", "cantidad", "precio"},
     productos |-> {"id", "nombre", "categoria", "precio"},
     clientes |-> {"id", "nombre", "email", "ciudad"}]

\* A check that asks every table without a declared list for an id column.
MissingColsOrId(table_name, frame) ==
    IF table_name \in DOMAIN required_columns
    THEN required_columns[table_name] \ frame.columns
    ELSE {"id"} \ frame.columns

missing_cols(table_name, frame) ==
    IF table_name \in DOMAIN required_columns
    THEN required_columns[table_name] \ frame.columns
    ELSE {}

validate_extracted_data(data) ==
    /\ data # <<>>
    /\ \A i \in 1..Len(data) : missing_cols(data[i].name, data[i].df) = {}

\* --------------------------------------------------------------- DataLoader
\* The tables of _create_tables, in the order it creates them.
SchemaNames ==
    <<"ventas", "productos", "clientes", "categorias", "inventario",
      "ventas_por_producto", "ventas_por_cliente", "ventas_por_categoria">>
table_schemas ==
    [ventas |->
        [id |-> "number", fecha |-> "text", producto_id |-> "number",
         cliente_id |-> "number", cantidad |-> "number", precio |-> "number",
         total |-> "number", mes |-> "number", dia_semana |-> "text"]
        @@ ("año" :> "number"),
     productos |->
        [id |-> "number", nombre |-> "text", categoria |-> "text", precio |-> "number",
         stock |-> "number", descripcion |-> "text"],
     clientes |->
        [id |-> "number", nombre |-> "text", email |-> "text", ciudad |-> "text",
         telefono |-> "text", fecha_registro |-> "text"],
     categorias |->
        [id |-> "number", nombre |-> "text", descripcion |-> "text", activo |-> "number"],
     inventario |->
        [producto_id |-> "number", stock_actual |-> "number", stock_minimo |-> "number",
         ultima_actualizacion |-> "text", stock_bajo |-> "number"],
     ventas_por_producto |->
        [producto_id |-> "number", cantidad_total |-> "number", total_ventas |-> "number",
         num_ventas |-> "number", nombre_producto |-> "text", categoria |-> "text"],
     ventas_por_cliente |->
        [cliente_id |-> "number", cantidad_total |-> "number", total_compras |-> "number",
         num_compras |-> "number", nombre_cliente |-> "text", ciudad |-> "text"],
     ventas_por_categoria |->
        [categoria |-> "text", cantidad_total |-> "number", total_ventas |-> "number",
         num_ventas |-> "number"]]

\* CREATE TABLE IF NOT EXISTS for every schema: the database exists afterwards,
\* and a table it lacked is there without records.
_create_tables(db) ==
    LET missing == SelectSeq(SchemaNames, LAMBDA n : ~Has(db.tables, n))
    IN Database("ok", db.tables \o
           [i \in 1..Len(missing) |-> Item(missing[i], Frame(table_schemas[missing[i]], <<>>))])

\* column_mapping of _prepare_data_for_insertion.
column_mapping(table_name, c) ==
    CASE table_name = "ventas_por_producto" /\ c = "id" -> "producto_id"
      [] table_name = "ventas_por_producto" /\ c = "cantidad" -> "cantidad_total"
      [] table_name = "ventas_por_producto" /\ c = "total" -> "total_ventas"
      [] table_name = "ventas_por_producto" /\ c = "nombre" -> "nombre_producto"
      [] table_name = "ventas_por_cliente" /\ c = "id" -> "cliente_id"
      [] table_name = "ventas_por_cliente" /\ c = "cantidad" -> "cantidad_total"
      [] table_name = "ventas_por_cliente" /\ c = "total" -> "total_compras"
      [] table_name = "ventas_por_cliente" /\ c = "num_ventas" -> "num_compras"
      [] table_name = "ventas_por_cliente" /\ c = "nombre" -> "nombre_cliente"
      [] OTHER -> c

\* Lines 269-278: the columns renamed, a bool column as 0 / 1, a datetime
\* column as text.
_prepare_data_for_insertion(frame, table_name) ==
    LET renamed == {column_mapping(table_name, c) : c \in frame.columns}
        old(n) == CHOOSE c \in frame.columns : column_mapping(table_name, c) = n
        cell(r, c) ==
            CASE frame.dtypes[c] = "bool" /\ ~IsNull(r[c]) ->
                    Some(IF r[c][1] THEN Unit ELSE 0)
              [] frame.dtypes[c] = "datetime" -> strftime(r[c])
              [] OTHER -> r[c]
    IN Frame([n \in renamed |->
                 CASE frame.dtypes[old(n)] = "bool" -> "number"
                   [] frame.dtypes[old(n)] = "datetime" -> "text"
                   [] OTHER -> frame.dtypes[old(n)]],
             [i \in 1..Len(frame.rows) |-> [n \in renamed |-> cell(frame.rows[i], old(n))]])

\* DataFrame.to_sql(if_exists='replace', index=False): the table is dropped and
\* created again with the records of the DataFrame.
to_sql(db, table_name, frame) ==
    Database("ok", Append(SelectSeq(db.tables, LAMBDA t : t.name # table_name),
                          Item(table_name, frame)))

\* _load_table: an empty DataFrame is a success that leaves the database as it
\* is; to_sql raises on a file that is not a database and on a table the
\* database rejects, which the except turns into False.
_load_table(db, table_name, frame, rejects) ==
    IF empty(frame) THEN [db |-> db, success |-> TRUE]
    ELSE IF db.state = "corrupt" \/ table_name \in rejects
    THEN [db |-> db, success |-> FALSE]
    ELSE [db |-> to_sql(db, table_name, _prepare_data_for_insertion(frame, table_name)),
          success |-> TRUE]

\* The loop of lines 54-60 of load_all: it returns False at the first table
\* that fails. `tried` are the tables _load_table was called for.
RECURSIVE LoadEach(_, _, _, _)
LoadEach(db, data, tried, rejects) ==
    IF data = <<>> THEN [db |-> db, tried |-> tried, success |-> TRUE]
    ELSE LET one == _load_table(db, data[1].name, data[1].df, rejects)
         IN IF ~one.success
            THEN [db |-> one.db, tried |-> Append(tried, data[1].name), success |-> FALSE]
            ELSE LoadEach(one.db, Tail(data), Append(tried, data[1].name), rejects)

\* load_all: _create_tables raises on a file that is not a database, and the
\* except returns False; the indexes and the statistics file created after
\* the loop change no table.
load_all(db, data, rejects) ==
    IF db.state = "corrupt" THEN [db |-> db, tried |-> <<>>, success |-> FALSE]
    ELSE LoadEach(_create_tables(db), data, <<>>, rejects)

load_specific_table(db, table_name, frame, rejects) ==
    _load_table(db, table_name, frame, rejects)

\* ------------------------------------------------- scenario: the pipeline
\* The cleaning section of the configuration, as the test suite declares it.
TestCleaning == [remove_duplicates |-> TRUE, strategy |-> "forward", method |-> "iqr"]

\* The CSV files of the raw directory, as pd.read_csv yields them.
VentasCsv ==
    Frame([id |-> "number", fecha |-> "text", producto_id |-> "number",
           cliente_id |-> "number", cantidad |-> "number", precio |-> "number",
           total |-> "number"],
          <<[id |-> Some(1 * Unit), fecha |-> Some("2024-01-15"),
             producto_id |-> Some(101 * Unit), cliente_id |-> Some(1001 * Unit),
             cantidad |-> Some(2 * Unit), precio |-> Some(10 * Unit),
             total |-> Some(20 * Unit)],
            [id |-> Some(2 * Unit), fecha |-> Some("2024-01-16"),
             producto_id |-> Some(102 * Unit), cliente_id |-> Some(1001 * Unit),
             cantidad |-> Some(1 * Unit), precio |-> Some(10 * Unit),
             total |-> Some(999 * Unit)]>>)
ProductosCsv ==
    Frame([id |-> "number", nombre |-> "text", categoria |-> "text", precio |-> "number"],
          <<[id |-> Some(101 * Unit), nombre |-> Some(<<" ", "l", "a", "p", "t", "o", "p", " ", "h", "p">>),
             categoria |-> Some(<<"e", "l", "e", "c", "t", "r", "ó", "n", "i", "c", "o", "s", " ">>), precio |-> Some(10 * Unit)],
            [id |-> Some(103 * Unit), nombre |-> Some(<<"c", "a", "b", "l", "e">>),
             categoria |-> Some(<<"a", "c", "c", "e", "s", "o", "r", "i", "o", "s">>), precio |-> Some(0)]>>)
ClientesCsv ==
    Frame([id |-> "number", nombre |-> "text", email |-> "text", ciudad |-> "text"],
          <<[id |-> Some(1001 * Unit), nombre |-> Some(<<"a", "n", "a", " ", "p", "é", "r", "e", "z", " ">>),
             email |-> Some(<<"A", "n", "a", "@", "M", "a", "i", "l", ".", "c", "o", "m", " ">>), ciudad |-> Some(<<"m", "a", "d", "r", "i", "d">>)]>>)

Stems == {"ventas", "productos", "clientes"}
CsvOf == [ventas |-> VentasCsv, productos |-> ProductosCsv, clientes |-> ClientesCsv]
RequiredDropped == [ventas |-> "cantidad", productos |-> "precio", clientes |-> "email"]
Drop(frame, c) ==
    Frame([k \in frame.columns \ {c} |-> frame.dtypes[k]],
          Restrict(frame.rows, frame.columns \ {c}))

\* What a file named <stem>.csv can be: complete, without one of its required
\* columns, a header without records, or unreadable.
CsvVariants(stem) ==
    {CsvFile(stem, TRUE, CsvOf[stem]),
     CsvFile(stem, TRUE, Drop(CsvOf[stem], RequiredDropped[stem])),
     CsvFile(stem, TRUE, Frame(CsvOf[stem].dtypes, <<>>)),
     CsvFile(stem, FALSE, Frame(<<>>, <<>>))}

RejectableTables == {"productos", "otros"}

ScenariosIdle ==
    /\ df = <<>>
    /\ df_cleaned = <<>>
    /\ df_recleaned = <<>>
    /\ columns = {}
    /\ df_transformed = NotCalled
    /\ transformed_data = <<>>
    /\ derived_tables = <<>>

Init ==
    /\ pc = "idle"
    /\ cleaning_config = TestCleaning
    /\ ScenariosIdle
    /\ PipelineIdle

\* Before the first call, someone puts a file in the raw directory.
WriteCsvFile ==
    /\ pc = "idle"
    /\ calls = 0
    /\ \E stem \in Stems \ {csv_files[i].stem : i \in 1..Len(csv_files)} :
          \E f \in CsvVariants(stem) : csv_files' = Append(csv_files, f)
    /\ UNCHANGED <<pc, cleaning_config, scenarioVars, database, rejected, raw_data, valid,
                   processed_data, attempted, load_result, pipeline_result, calls>>

\* Before the first call, the file at database.path is something SQLite cannot read.
CorruptDatabase ==
    /\ pc = "idle"
    /\ calls = 0
    /\ database.state = "absent"
    /\ database' = Database("corrupt", <<>>)
    /\ UNCHANGED <<pc, cleaning_config, scenarioVars, csv_files, rejected, raw_data, valid,
                   processed_data, attempted, load_result, pipeline_result, calls>>

\* The database will reject the records of one table.
RejectTable ==
    /\ pc = "idle"
    /\ calls = 0
    /\ rejected = {}
    /\ \E n \in RejectableTables : rejected' = {n}
    /\ UNCHANGED <<pc, cleaning_config, scenarioVars, csv_files, database, raw_data, valid,
                   processed_data, attempted, load_result, pipeline_result, calls>>

\* Stage 1 of run_full_pipeline; when extract_all raises, run_full_pipeline
\* returns False.
ExtractAll ==
    /\ pc = "idle"
    /\ calls < MaxRuns
    /\ raw_data' = extract_all(csv_files, database)
    /\ valid' = Null
    /\ processed_data' = NotYet
    /\ attempted' = <<>>
    /\ load_result' = Null
    /\ IF raw_data'.raised
       THEN pc' = "idle" /\ pipeline_result' = Some(FALSE) /\ calls' = calls + 1
       ELSE pc' = "extracted" /\ pipeline_result' = Null /\ calls' = calls
    /\ UNCHANGED <<cleaning_config, scenarioVars, csv_files, database, rejected>>

\* validate_extracted_data on the extracted batch; run_full_pipeline does not
\* call it, a caller of the extractor does.
ValidateExtractedData ==
    /\ pc = "extracted"
    /\ valid = Null
    /\ valid' = Some(validate_extracted_data(raw_data.data))
    /\ UNCHANGED <<pc, cleaning_config, scenarioVars, csv_files, database, rejected,
                   raw_data, processed_data, attempted, load_result, pipeline_result, calls>>

\* Stage 2 of run_full_pipeline; when transform_all raises, run_full_pipeline
\* returns False.
TransformAll ==
    /\ pc = "extracted"
    /\ processed_data' = transform_all(raw_data.data, cleaning_config)
    /\ raw_data' = Returns(GivenToTransformAll(raw_data.data))
    /\ IF processed_data'.raised
       THEN pc' = "idle" /\ pipeline_result' = Some(FALSE) /\ calls' = calls + 1
       ELSE pc' = "transformed" /\ UNCHANGED <<pipeline_result, calls>>
    /\ UNCHANGED <<cleaning_config, scenarioVars, csv_files, database, rejected,
                   valid, attempted, load_result>>

\* Stage 3 of run_full_pipeline, which does not look at what load_all returns.
LoadAll ==
    /\ pc = "transformed"
    /\ LET out == load_all(database, processed_data.data, rejected)
       IN /\ database' = out.db
          /\ attempted' = out.tried
          /\ load_result' = Some(out.success)
    /\ pc' = "loaded"
    /\ UNCHANGED <<cleaning_config, scenarioVars, csv_files, rejected, raw_data, valid,
                   processed_data, pipeline_result, calls>>

\* Stage 4 of run_full_pipeline: generate_all_reports reads the database,
\* catches what it raises, and run_full_pipeline returns True.
GenerateAllReports ==
    /\ pc = "loaded"
    /\ pipeline_result' = Some(TRUE)
    /\ calls' = calls + 1
    /\ pc' = "idle"
    /\ UNCHANGED <<cleaning_config, scenarioVars, csv_files, database, rejected, raw_data,
                   valid, processed_data, attempted, load_result>>

Next ==
    \/ WriteCsvFile
    \/ CorruptDatabase
    \/ RejectTable
    \/ ExtractAll
    \/ ValidateExtractedData
    \/ TransformAll
    \/ LoadAll
    \/ GenerateAllReports

Spec == Init /\ [][Next]_vars

\* --------------------------------------------------- scenario: the loader
\* The tables a caller hands to the loader, and the mappings made of them.
LoadNames == {"productos", "otros"}
LoadFrames == {Frame(ProductosCsv.dtypes, SubSeq(ProductosCsv.rows, 1, k)) : k \in 0..2}
Batches ==
    {<<Item(n, f)>> : n \in LoadNames, f \in LoadFrames}
    \cup {<<Item(p[1], f), Item(p[2], g)>> :
              p \in {q \in LoadNames \X LoadNames : q[1] # q[2]},
              f \in LoadFrames, g \in LoadFrames}

\* A caller has a mapping of transformed tables to load.
TransformedBatch ==
    /\ pc = "idle"
    /\ calls < MaxLoads
    /\ \E batch \in Batches : processed_data' = Returns(batch)
    /\ attempted' = <<>>
    /\ load_result' = Null
    /\ pc' = "transformed"
    /\ UNCHANGED <<cleaning_config, scenarioVars, csv_files, database, rejected, raw_data,
                   valid, pipeline_result, calls>>

LoadSpecificTable ==
    /\ pc = "idle"
    /\ calls < MaxLoads
    /\ \E n \in LoadNames, f \in LoadFrames :
          LET out == load_specific_table(database, n, f, rejected)
          IN /\ processed_data' = Returns(<<Item(n, f)>>)
             /\ database' = out.db
             /\ attempted' = <<n>>
             /\ load_result' = Some(out.success)
    /\ calls' = calls + 1
    /\ UNCHANGED <<pc, cleaning_config, scenarioVars, csv_files, rejected, raw_data, valid,
                   pipeline_result>>

NextLoad ==
    \/ CorruptDatabase
    \/ RejectTable
    \/ TransformedBatch
    \/ LoadAll
    \/ GenerateAllReports
    \/ LoadSpecificTable

SpecLoad == Init /\ [][NextLoad]_vars

\* ---------------------------------------------------------------- claim C6
\* The datasets of the extracted batch that lack a required column.
Incomplete(data) ==
    {data[i].name : i \in {j \in 1..Len(data) : missing_cols(data[j].name, data[j].df) # {}}}

\* C6 as stated: when a dataset of the extracted batch lacks one of its required
\* columns, transform_all still returns, and what it returns holds every other
\* dataset of the batch and not the incomplete one; the batch does not fail.
C6_IncompleteDatasetExcludedAlone ==
    processed_data.called /\ Incomplete(raw_data.data) # {} =>
        /\ ~processed_data.raised
        /\ \A n \in Range(keys(raw_data.data)) :
              Has(processed_data.data, n) <=> n \notin Incomplete(raw_data.data)

\* ---------------------------------------------------------------- claim C9
\* C9 as stated: whatever source fails (an unreadable CSV file, the file at
\* database.path as a whole), extract_all does not raise; its result holds the
\* dataset of every CSV file that was read and has records and the two API
\* datasets, and no dataset for a CSV file that could not be read.
C9_ExtractAllNeverRaises ==
    raw_data.called /\ ~processed_data.called =>
        /\ ~raw_data.raised
        /\ Has(raw_data.data, "categorias")
        /\ Has(raw_data.data, "inventario")
        /\ \A i \in 1..Len(csv_files) :
              IF csv_files[i].readable
              THEN ~empty(csv_files[i].df) => Has(raw_data.data, csv_files[i].stem)
              ELSE Has(raw_data.data, csv_files[i].stem)
                      => Has(database.tables, csv_files[i].stem)

\* ---------------------------------------------------------------- claim C7
\* C7 as stated: load_all calls _load_table for every table of the mapping it
\* is given, in order, whether or not an earlier table failed (the database
\* file itself being usable).
C7_EveryTableAttempted ==
    load_result # Null /\ database.state # "corrupt" =>
        attempted = keys(processed_data.data)

\* ---------------------------------------------------------------- claim C8
\* The records table `name` holds in the database; none when it has no such table.
Stored(name) == IF Has(database.tables, name) THEN Get(database.tables, name).rows ELSE <<>>

\* C8 as stated: after a load that returned success, every table of the loaded
\* mapping holds exactly the records of its DataFrame (as prepared for
\* insertion), an empty DataFrame leaving an empty table, whatever was loaded
\* before.
C8_FullReplacement ==
    load_result = Some(TRUE) =>
        \A i \in 1..Len(processed_data.data) :
            Stored(processed_data.data[i].name) =
                _prepare_data_for_insertion(processed_data.data[i].df,
                                            processed_data.data[i].name).rows

\* ------------------------------------------ scenario: _transform_productos
\* A productos DataFrame whose precio column holds positive, zero and negative
\* numbers, nulls and texts that are not numbers.
ProductosCols == {"id", "nombre", "categoria", "precio"}
ProductosRecords ==
    [id : {Some(1 * Unit)},
     nombre : {Some(<<" ", "a", "b">>)},
     categoria : {Some(<<"R", "A">>)},
     precio : {Null, Garbled, Some((0 - 5) * Unit), Some(0), Some(10 * Unit),
               Some(1000 * Unit)}]

InitProductos ==
    /\ pc = "input"
    /\ cleaning_config \in Policies
    /\ columns = ProductosCols
    /\ df = <<>>
    /\ df_transformed = NotCalled
    /\ df_cleaned = <<>>
    /\ df_recleaned = <<>>
    /\ transformed_data = <<>>
    /\ derived_tables = <<>>
    /\ PipelineIdle

\* The caller builds the products DataFrame one record at a time.
AppendProducto ==
    /\ pc = "input"
    /\ Len(df) < MaxProductos
    /\ \E r \in ProductosRecords : df' = Append(df, r)
    /\ UNCHANGED <<pc, cleaning_config, columns, df_transformed, df_cleaned, df_recleaned, aggregationVars>>

TransformProductos ==
    /\ pc = "input"
    /\ df_transformed' = _transform_productos(df, columns, cleaning_config)
    /\ pc' = "transformed"
    /\ UNCHANGED <<cleaning_config, columns, df, df_cleaned, df_recleaned, aggregationVars>>

NextProductos == AppendProducto \/ TransformProductos

SpecProductos == InitProductos /\ [][NextProductos]_vars

\* --------------------------------------------------------------- claim C11
\* The records of `rows` whose price is a number greater than 0.
WithPositivePrice(rows) ==
    {i \in 1..Len(rows) : Len(rows[i].precio) = 1 /\ rows[i].precio[1] > 0}

\* C11: _transform_productos returns, every record of its output has a price
\* that is a number strictly greater than 0, and the output holds the input
\* records with a positive price and no other: all of them without
\* remove_duplicates, one per distinct record with it.
C11_OutputPricesPositive ==
    pc = "transformed" =>
        /\ ~df_transformed.raised
        /\ \A i \in 1..Len(df_transformed.rows) :
              /\ Len(df_transformed.rows[i].precio) = 1
              /\ df_transformed.rows[i].precio[1] > 0
        /\ Len(df_transformed.rows) =
              IF cleaning_config.remove_duplicates
              THEN Cardinality({df[i] : i \in WithPositivePrice(df)})
              ELSE Cardinality(WithPositivePrice(df))

\* C11 witness: a dataset with an un-coercible price, a zero price, a negative
\* price and a positive one; only the last record is in the output.
C11_Witness ==
    /\ pc = "transformed"
    /\ Len(df) = 4
    /\ \E i \in 1..4 : df[i].precio = Garbled
    /\ \E i \in 1..4 : df[i].precio = Some(0)
    /\ \E i \in 1..4 : df[i].precio = Some((0 - 5) * Unit)
    /\ Len(df_transformed.rows) = 1
    /\ df_transformed.rows[1].precio = Some(10 * Unit)
    /\ df_transformed.rows[1].nombre = Some(<<"A", "b">>)
    /\ df_transformed.rows[1].categoria = Some(<<"R", "a">>)

\* ----------------------------------------- scenario: _transform_inventario
\* An inventario DataFrame as the API yields it, less the date column, with
\* stocks that can be missing.
InventarioCols == {"producto_id", "stock_actual", "stock_minimo"}
InventarioRecords ==
    [producto_id : {Some(101 * Unit), Some(102 * Unit)},
     stock_actual : {Null, Some(5 * Unit), Some(20 * Unit)},
     stock_minimo : {Some(10 * Unit)}]

InitInventario ==
    /\ pc = "input"
    /\ cleaning_config \in Policies
    /\ columns = InventarioCols
    /\ df = <<>>
    /\ df_transformed = NotCalled
    /\ df_cleaned = <<>>
    /\ df_recleaned = <<>>
    /\ transformed_data = <<>>
    /\ derived_tables = <<>>
    /\ PipelineIdle

\* The caller builds the inventory DataFrame one record at a time.
AppendInventario ==
    /\ pc = "input"
    /\ Len(df) < MaxInventario
    /\ \E r \in InventarioRecords : df' = Append(df, r)
    /\ UNCHANGED <<pc, cleaning_config, columns, df_transformed, df_cleaned, df_recleaned, aggregationVars>>

TransformInventario ==
    /\ pc = "input"
    /\ df_transformed' = _transform_inventario(df, columns, InventarioCols, cleaning_config)
    /\ pc' = "transformed"
    /\ UNCHANGED <<cleaning_config, columns, df, df_cleaned, df_recleaned, aggregationVars>>

NextInventario == AppendInventario \/ TransformInventario

SpecInventario == InitInventario /\ [][NextInventario]_vars

\* --------------------------------------------------------------- claim C12
\* C12 as stated: on every record of the output of _transform_inventario,
\* stock_bajo equals stock_actual <= stock_minimo computed from the stocks of
\* that same output record, after cleaning has filled or clamped them.
C12_FlagConsistentWithOutputStocks ==
    pc = "transformed" /\ ~df_transformed.raised =>
        \A i \in 1..Len(df_transformed.rows) :
            df_transformed.rows[i].stock_bajo = stock_bajo(df_transformed.rows[i])

\* What the code does guarantee: the flag is the comparison of the stocks the
\* record had when it entered the method.
C12_FlagOfInputStocks ==
    pc = "transformed" /\ ~cleaning_config.remove_duplicates =>
        /\ ~df_transformed.raised
        /\ Len(df_transformed.rows) = Len(df)
        /\ \A i \in 1..Len(df) :
              ~IsNull(df[i].stock_actual) =>
                  df_transformed.rows[i].stock_bajo = stock_bajo(df[i])

\* --------------------------------------------------------------- claim C13
\* What a kind-specific method hands to _clean_dataframe: the rows, their
\* columns and the numeric ones.
HandedToClean(table_name, frame) ==
    LET rows == frame.rows
        cols == frame.columns
    IN CASE table_name = "ventas" ->
              [rows |-> VentasBusinessRules(rows, cols), cols |-> cols \cup VentasDerivedCols,
               numcols |-> NumericOf(cols \cup VentasDerivedCols)]
         [] table_name = "productos" ->
              [rows |-> ProductosBusinessRules(rows), cols |-> cols, numcols |-> NumericOf(cols)]
         [] table_name = "clientes" ->
              [rows |-> ClientesBusinessRules(rows), cols |-> cols, numcols |-> NumericOf(cols)]
         [] table_name = "categorias" ->
              [rows |-> CategoriasBusinessRules(rows), cols |-> cols, numcols |-> Numeric(frame)]
         [] table_name = "inventario" ->
              [rows |-> InventarioBusinessRules(rows, cols), cols |-> cols \cup {"stock_bajo"},
               numcols |-> Numeric(frame) \ {"stock_bajo"}]
         [] OTHER -> [rows |-> rows, cols |-> cols, numcols |-> Numeric(frame)]

\* The arguments of _clean_dataframe, _handle_outliers_iqr and
\* _validate_data_types in the transformation of one table are, after the
\* call, what they were before it.
NestedArgumentsKept(table_name, frame, cfg) ==
    LET a == HandedToClean(table_name, frame)
        filled == Filled(a.rows, a.cols, a.numcols, cfg)
        cleaned == _clean_dataframe(a.rows, a.cols, a.numcols, cfg)
    IN /\ GivenToClean(a.rows, a.cols, a.numcols, cfg) = a.rows
       /\ cfg.method = "iqr" => GivenToOutliers(filled, a.cols, a.numcols) = filled
       /\ table_name \in DOMAIN data_types =>
             GivenToValidate(cleaned, a.cols, table_name) = cleaned

JoinDropsNoRow(key, dim) ==
    \A k \in GroupKeys(transformed_data["ventas"].rows, key) :
        \E j \in 1..Len(transformed_data[dim].rows) :
            transformed_data[dim].rows[j].id = Some(k)

\* The rollup `name` has the total of the sales and counts every sale.
PreservesTotals(name, count) ==
    LET out == derived_tables[name]
        ventas == transformed_data["ventas"].rows
    IN /\ SumOver(out, "total", 1..Len(out)) = SumOver(ventas, "total", 1..Len(ventas))
       /\ SumOver(out, count, 1..Len(out)) = Len(ventas) * Unit

\* No two records of the dimension table `dim` have the same id.
UniqueIds(dim) ==
    \A i, j \in 1..Len(transformed_data[dim].rows) :
        transformed_data[dim].rows[i].id = transformed_data[dim].rows[j].id => i = j

\* C14 as stated: when the join drops no row, the total column of each rollup
\* sums to the total of the sales, and its count column to the number of sales.
C14_RollupPreservesTotals ==
    pc = "derived" =>
        /\ "ventas_por_producto" \in DOMAIN derived_tables
           /\ JoinDropsNoRow("producto_id", "productos")
              => PreservesTotals("ventas_por_producto", "num_ventas")
        /\ "ventas_por_cliente" \in DOMAIN derived_tables
           /\ JoinDropsNoRow("cliente_id", "clientes")
              => PreservesTotals("ventas_por_cliente", "num_compras")
        /\ "ventas_por_categoria" \in DOMAIN derived_tables
           /\ JoinDropsNoRow("producto_id", "productos")
              => PreservesTotals("ventas_por_categoria", "num_ventas")

\* What the code does guarantee: the same, when moreover no two records of the
\* dimension table share an id.
C14_PreservedWithUniqueDimensionIds ==
    pc = "derived" =>
        /\ "ventas_por_producto" \in DOMAIN derived_tables
           /\ JoinDropsNoRow("producto_id", "productos") /\ UniqueIds("productos")
              => /\ PreservesTotals("ventas_por_producto", "num_ventas")
                 /\ PreservesTotals("ventas_por_categoria", "num_ventas")
        /\ "ventas_por_cliente" \in DOMAIN derived_tables
           /\ JoinDropsNoRow("cliente_id", "clientes") /\ UniqueIds("clientes")
              => PreservesTotals("ventas_por_cliente", "num_compras")

\* ------------------------------- scenario: cells that cannot be coerced
\* A ventas DataFrame read from a CSV file in which a date or a quantity is not
\* what its column declares.
UncoercedRecords ==
    [id : {Some(1 * Unit)},
     fecha : {Some("2024-01-15"), Some("not a date")},
     producto_id : {Some(101 * Unit)},
     cliente_id : {Some(1001 * Unit)},
     cantidad : {Some(2 * Unit), Garbled},
     precio : {Some(10 * Unit)},
     total : {Some(20 * Unit)}]

AppendUncoercedVenta ==
    /\ pc = "input"
    /\ Len(df) < MaxUncoerced
    /\ \E r \in UncoercedRecords : df' = Append(df, [c \in columns |-> r[c]])
    /\ UNCHANGED <<pc, cleaning_config, columns, df_transformed, df_cleaned, df_recleaned, aggregationVars>>

NextCoercion == AppendUncoercedVenta \/ TransformVentas

SpecCoercion == InitVentas /\ [][NextCoercion]_vars

\* --------------------------------------------------------------- claim C15
\* C15 as stated: whatever cells of a ventas dataset cannot be coerced to the
\* declared type of their column, _transform_ventas returns, and each such cell
\* is null in its output.
C15_UncoercibleCellsBecomeNull ==
    pc = "transformed" =>
        /\ ~df_transformed.raised
        /\ \A i \in 1..Len(df_transformed.rows) :
              ~IsGarbled(df_transformed.rows[i].cantidad)

\* What the code does: it raises exactly when a date cannot be parsed or a
\* quantity is not a number.
C15_RaisesOnUncoercibleCell ==
    pc = "transformed" =>
        (df_transformed.raised <=>
            \E i \in 1..Len(df) : ~Parseable(df[i].fecha) \/ IsGarbled(df[i].cantidad))

\* -------------------------------- scenario: validate_extracted_data
\* A caller builds a mapping by hand, as test_data_validation does: the sample
\* tables, complete or without one required column, and a table the
\* configuration declares nothing for.
OtrosFrame == Frame([nombre |-> "text"], <<[nombre |-> Some(<<"A", "b">>)]>>)
HandBuiltFrames(name) ==
    IF name \in Stems
    THEN {CsvOf[name], Drop(CsvOf[name], RequiredDropped[name])}
    ELSE {OtrosFrame}

\* The caller starts with an empty mapping.
EmptyMapping ==
    /\ pc = "idle"
    /\ ~raw_data.called
    /\ raw_data' = Returns(<<>>)
    /\ pc' = "extracted"
    /\ UNCHANGED <<cleaning_config, scenarioVars, csv_files, database, rejected, valid,
                   processed_data, attempted, load_result, pipeline_result, calls>>

AddDataset ==
    /\ pc = "extracted"
    /\ valid = Null
    /\ Len(raw_data.data) < MaxDatasets
    /\ \E name \in (Stems \cup {"otros"}) \ Range(keys(raw_data.data)) :
          \E f \in HandBuiltFrames(name) :
              raw_data' = Returns(setitem(raw_data.data, name, f))
    /\ UNCHANGED <<pc, cleaning_config, scenarioVars, csv_files, database, rejected, valid,
                   processed_data, attempted, load_result, pipeline_result, calls>>

NextValidate == EmptyMapping \/ AddDataset \/ ValidateExtractedData

SpecValidate == Init /\ [][NextValidate]_vars

\* --------------------------------------------------------------- claim C16
\* C16: validate_extracted_data returns a boolean, and it is True exactly when
\* the mapping is not empty and every dataset named ventas, productos or
\* clientes has all the columns declared for that name; other datasets do not
\* count.
C16_ValidExactlyWhenDeclaredColumnsPresent ==
    valid # Null =>
        valid = Some(/\ Len(raw_data.data) > 0
                     /\ \A i \in 1..Len(raw_data.data) :
                           raw_data.data[i].name \in DOMAIN required_columns
                           => required_columns[raw_data.data[i].name]
                                 \subseteq raw_data.data[i].df.columns)

\* C16 witness: a mapping of three datasets, one of them without a declared
\* list and without an id column, one complete, one that lacks a required
\* column: the result is False.
C16_Witness ==
    /\ valid = Some(FALSE)
    /\ Len(raw_data.data) = 3
    /\ Has(raw_data.data, "otros")
    /\ Cardinality(Incomplete(raw_data.data)) = 1

\* --------------------------------------------------------------- claim C17
\* The dataset in the order the fill sees it: after duplicate removal.
InFillOrder == IF cleaning_config.remove_duplicates THEN drop_duplicates(df) ELSE df
Preceding(rows, i, c) == {j \in 1..(i - 1) : ~IsNull(rows[j][c])}

\* C17: with the 'forward' strategy the output of _clean_dataframe has one
\* record per record left by duplicate removal; a cell that was null holds the
\* value of the nearest preceding record whose cell was not null (that
\* record's own value when no clamp is configured, and in every case what that
\* record holds in the output), it is null only when no preceding record has
\* a value, and a column whose first record is not null has no null cell.
C17_ForwardFillTakesNearestPreceding ==
    (pc # "input" /\ cleaning_config.strategy = "forward") =>
        /\ Len(df_cleaned) = Len(InFillOrder)
        /\ \A i \in 1..Len(InFillOrder) : \A c \in CleanCols :
              LET P == Preceding(InFillOrder, i, c)
              IN /\ ~IsNull(InFillOrder[i][c]) => ~IsNull(df_cleaned[i][c])
                 /\ (IsNull(InFillOrder[i][c]) /\ P = {}) => IsNull(df_cleaned[i][c])
                 /\ (IsNull(InFillOrder[i][c]) /\ P # {}) =>
                       /\ ~IsNull(df_cleaned[i][c])
                       /\ df_cleaned[i][c] = df_cleaned[MaxOf(P)][c]
                       /\ cleaning_config.method = "none"
                          => df_cleaned[i][c] = InFillOrder[MaxOf(P)][c]
        /\ \A c \in CleanCols :
              (InFillOrder # <<>> /\ ~IsNull(InFillOrder[1][c]))
              => \A i \in 1..Len(df_cleaned) : ~IsNull(df_cleaned[i][c])

\* C17 witness: duplicates were removed, and a null id two records below the
\* last value was filled with it.
C17_Witness ==
    /\ pc = "cleaned"
    /\ cleaning_config.strategy = "forward"
    /\ cleaning_config.remove_duplicates
    /\ Len(df_cleaned) < Len(df)
    /\ \E i \in 3..Len(InFillOrder) :
          /\ IsNull(InFillOrder[i].id)
          /\ IsNull(InFillOrder[i - 1].id)
          /\ ~IsNull(InFillOrder[i - 2].id)
          /\ df_cleaned[i].id = InFillOrder[i - 2].id

\* --------------------------------------------------------------- claim C18
\* The order the claim describes, for productos: the Cleaning Engine on the
\* records as given, then the business rules, then the type coercion.
CleaningFirst(rows, cols, cfg) ==
    _validate_data_types(
        ProductosBusinessRules(_clean_dataframe(rows, cols, NumericOf(cols), cfg)),
        cols, "productos")

AllPricesNumeric(rows) == \A i \in 1..Len(rows) : ~IsGarbled(rows[i].precio)

\* C18: the output of _transform_productos is what cleaning first, then the
\* business rules, then type coercion give (stated for a precio column that
\* holds numbers and nulls only).
C18_CleaningPrecedesBusinessRules ==
    (pc = "transformed" /\ AllPricesNumeric(df)) =>
        /\ ~df_transformed.raised
        /\ df_transformed.rows = CleaningFirst(df, columns, cleaning_config)

\* The price filter sees the prices as given: a record whose price is null
\* never reaches the output, whatever the fill strategy would have put there.
C18_NullPricesDroppedBeforeFill ==
    pc = "transformed" =>
        Len(df_transformed.rows) <= Cardinality(WithPositivePrice(df))

\* --------------------------------------------------------------- claim C19
\* The first record of `rows` whose column c holds `cell`.
FirstAt(rows, c, cell) == MinOf({i \in 1..Len(rows) : rows[i][c] = cell})

\* The rows of the rollup `name`, keyed by column k, follow the order in which
\* their keys first appear in column c of `fact`.
InFirstAppearanceOrder(name, k, fact, c) ==
    name \in DOMAIN derived_tables =>
        \A a, b \in 1..Len(derived_tables[name]) :
            a < b => FirstAt(fact, c, derived_tables[name][a][k])
                       <= FirstAt(fact, c, derived_tables[name][b][k])

SalesWithCategory ==
    ventas_con_categoria(transformed_data["ventas"].rows, transformed_data["productos"].rows)

\* C19: the rows of each rollup appear in the order in which their group key
\* first appears in the sales dataset.
C19_RowsInFirstAppearanceOrder ==
    pc = "derived" =>
        /\ InFirstAppearanceOrder("ventas_por_producto", "id",
                                  transformed_data["ventas"].rows, "producto_id")
        /\ InFirstAppearanceOrder("ventas_por_cliente", "id",
                                  transformed_data["ventas"].rows, "cliente_id")
        /\ InFirstAppearanceOrder("ventas_por_categoria", "key",
                                  SalesWithCategory, "categoria")

\* groupby sorts the group keys: the rows of each rollup are in ascending key
\* order.
C19_RowsInAscendingKeyOrder ==
    pc = "derived" =>
        /\ \A name \in {"ventas_por_producto", "ventas_por_cliente"} \cap DOMAIN derived_tables :
              \A a, b \in 1..Len(derived_tables[name]) :
                  a < b => derived_tables[name][a].id[1] <= derived_tables[name][b].id[1]
        /\ "ventas_por_categoria" \in DOMAIN derived_tables =>
              \A a, b \in 1..Len(derived_tables["ventas_por_categoria"]) :
                  a < b => TextLeq(derived_tables["ventas_por_categoria"][a].key[1],
                                   derived_tables["ventas_por_categoria"][b].key[1])

\* ------------------ scenario: _create_derived_tables on ill-formed tables
\* transform_all does not check the columns the rollups need: a transformed
\* table may come without one of them.
MayLack == [ventas |-> "cliente_id", productos |-> "nombre", clientes |-> "ciudad"]

InitIllFormed ==
    /\ pc = "input"
    /\ \E present \in SUBSET {"ventas", "productos", "clientes"} :
          \E lacking \in SUBSET present :
              transformed_data =
                  [n \in present |->
                      Table(IF n \in lacking THEN ColumnsOf[n] \ {MayLack[n]} ELSE ColumnsOf[n],
                            <<>>)]
    /\ derived_tables = <<>>
    /\ cleaning_config = [remove_duplicates |-> TRUE, strategy |-> "forward", method |-> "none"]
    /\ df = <<>>
    /\ df_cleaned = <<>>
    /\ df_recleaned = <<>>
    /\ columns = {}
    /\ df_transformed = NotCalled
    /\ PipelineIdle

SpecIllFormed == InitIllFormed /\ [][NextDerived]_vars

\* --------------------------------------------------------------- claim C20
\* The tables and columns each rollup reads.
RollupNames == {"ventas_por_producto", "ventas_por_cliente", "ventas_por_categoria"}
Reads(name) ==
    CASE name = "ventas_por_producto" ->
             [ventas |-> {"producto_id", "cantidad", "total", "id"},
              productos |-> {"id", "nombre", "categoria"}]
      [] name = "ventas_por_cliente" ->
             [ventas |-> {"cliente_id", "cantidad", "total", "id"},
              clientes |-> {"id", "nombre", "ciudad"}]
      [] OTHER ->
             [ventas |-> {"producto_id", "cantidad", "total", "id"},
              productos |-> {"id", "categoria"}]

InputsPresent(name) == DOMAIN Reads(name) \subseteq DOMAIN transformed_data
InputsWellFormed(name) ==
    /\ InputsPresent(name)
    /\ \A n \in DOMAIN Reads(name) : Reads(name)[n] \subseteq transformed_data[n].columns

\* C20: a rollup is produced exactly when its own inputs are present and
\* well-formed, whatever happens to the other two.
C20_RollupsIndependent ==
    pc = "derived" =>
        \A name \in RollupNames : name \in DOMAIN derived_tables <=> InputsWellFormed(name)

\* The rollups are built in one try block, in the order producto, cliente,
\* categoria: a rollup is produced exactly when its inputs are well-formed and
\* no rollup before it had its inputs present but ill-formed.
BuiltBefore(name) ==
    CASE name = "ventas_por_producto" -> {}
      [] name = "ventas_por_cliente" -> {"ventas_por_producto"}
      [] OTHER -> {"ventas_por_producto", "ventas_por_cliente"}

C20_ProducedUntilFirstFailure ==
    pc = "derived" =>
        \A name \in RollupNames :
            name \in DOMAIN derived_tables <=>
                /\ InputsWellFormed(name)
                /\ \A m \in BuiltBefore(name) : InputsPresent(m) => InputsWellFormed(m)

\* ------------------------------- scenario: _clean_dataframe, two numeric columns
\* A DataFrame with two numeric columns; the cells of the second may be complex
\* numbers, which have no order.
MeasuredCols == {"id", "precio"}
MeasuredRecords ==
    [id : {Some(0), Some(100 * Unit)},
     precio : {Some(10 * Unit), Complex(0, Unit)}]

InitMeasured ==
    /\ pc = "input"
    /\ cleaning_config \in Policies
    /\ df = <<>>
    /\ df_cleaned = <<>>
    /\ df_recleaned = <<>>
    /\ columns = MeasuredCols
    /\ df_transformed = NotCalled
    /\ transformed_data = <<>>
    /\ derived_tables = <<>>
    /\ PipelineIdle

AppendMeasured ==
    /\ pc = "input"
    /\ Len(df) < MaxRows
    /\ \E r \in MeasuredRecords : df' = Append(df, r)
    /\ UNCHANGED <<pc, cleaning_config, df_cleaned, df_recleaned, columns, df_transformed, aggregationVars>>

CleanMeasured ==
    /\ pc = "input"
    /\ df_cleaned' = _clean_dataframe(df, MeasuredCols, MeasuredCols, cleaning_config)
    /\ pc' = "cleaned"
    /\ UNCHANGED <<cleaning_config, df, df_recleaned, columns, df_transformed, aggregationVars>>

NextMeasured == AppendMeasured \/ CleanMeasured

SpecMeasured == InitMeasured /\ [][NextMeasured]_vars

\* --------------------------------------------------------------- claim C21
MeasuredFilled == Filled(df, MeasuredCols, MeasuredCols, cleaning_config)

\* C21: _clean_dataframe returns, a numeric column the outlier step cannot
\* process is left as it was after filling, and every other numeric column is
\* clamped to its own bounds.
C21_OnlyUnprocessableColumnSkipped ==
    (pc = "cleaned" /\ cleaning_config.method = "iqr") =>
        /\ Len(df_cleaned) = Len(MeasuredFilled)
        /\ \A i \in 1..Len(df_cleaned) : \A c \in MeasuredCols :
              df_cleaned[i][c] =
                  IF c \in Unordered(MeasuredFilled, MeasuredCols) \/ IsNull(MeasuredFilled[i][c])
                  THEN MeasuredFilled[i][c]
                  ELSE Some(clamp(MeasuredFilled, c, MeasuredFilled[i][c][1]))

\* What the except clause gives: one column that cannot be processed leaves
\* every column as it was after filling.
C21_OneFailureSkipsEveryColumn ==
    (pc = "cleaned" /\ Unordered(MeasuredFilled, MeasuredCols) # {}) =>
        df_cleaned = MeasuredFilled

\* --------------------------------- scenario: _handle_outliers_iqr(df, threshold)
\* The outlier step called on its own, with the configured threshold: the
\* default 1.5 or 0.5 (in units of 1 / ThresholdDen).
Thresholds == {1, ThresholdNum}

InitOutliers ==
    /\ pc = "input"
    /\ cleaning_config \in [remove_duplicates : {FALSE}, strategy : {"forward"},
                            method : {"iqr"}, threshold : Thresholds]
    /\ df = <<>>
    /\ df_cleaned = <<>>
    /\ df_recleaned = <<>>
    /\ columns = CleanCols
    /\ df_transformed = NotCalled
    /\ transformed_data = <<>>
    /\ derived_tables = <<>>
    /\ PipelineIdle

HandleOutliersIqr ==
    /\ pc = "input"
    /\ df_cleaned' = HandleOutliersAt(df, CleanCols, CleanNumCols, cleaning_config.threshold)
    /\ pc' = "clamped"
    /\ UNCHANGED <<cleaning_config, df, df_recleaned, columns, df_transformed, aggregationVars>>

NextOutliers == AppendRecord \/ HandleOutliersIqr

SpecOutliers == InitOutliers /\ [][NextOutliers]_vars

\* --------------------------------------------------------------- claim C22
Untouched(c) ==
    /\ Len(df_cleaned) = Len(df)
    /\ \A i \in 1..Len(df) : df_cleaned[i][c] = df[i][c]

\* C22: a numeric column with fewer than 4 non-null values is the same before
\* and after _handle_outliers_iqr, whatever the threshold.
C22_FewValuesLeftUntouched ==
    pc = "clamped" =>
        \A c \in CleanNumCols : Cardinality(NonNull(df, c)) < 4 => Untouched(c)

\* With the default threshold 1.5 no value of a column with fewer than 4
\* non-null values lies outside the bounds, so the column is left as it was.
C22_UntouchedAtDefaultThreshold ==
    (pc = "clamped" /\ cleaning_config.threshold = ThresholdNum) =>
        \A c \in CleanNumCols : Cardinality(NonNull(df, c)) < 4 => Untouched(c)

\* ------------------------- scenario: the reconciliation step of _transform_ventas
\* Sales whose supplied total is null, exact, off by less than the tolerance
\* (5 / 1024), off by just more (11 / 1024) or far off, and whose quantity may
\* be null.
SuppliedRecords ==
    [id : {Some(1 * Unit)},
     fecha : {Some("2024-01-15")},
     producto_id : {Some(101 * Unit)},
     cliente_id : {Some(1001 * Unit)},
     cantidad : {Null, Some(2 * Unit)},
     precio : {Some(10 * Unit)},
     total : {Null, Some(20 * Unit), Some(20 * Unit + 5), Some(20 * Unit + 11),
              Some(999 * Unit)}]

AppendSupplied ==
    /\ pc = "input"
    /\ Len(df) < MaxVentas
    /\ \E r \in SuppliedRecords :
          /\ "total" \notin columns => IsNull(r.total)
          /\ df' = Append(df, [c \in columns |-> r[c]])
    /\ UNCHANGED <<pc, cleaning_config, columns, df_transformed, df_cleaned, df_recleaned, aggregationVars>>

\* Lines 89-113: df_transformed as it is handed to _clean_dataframe.
ReconcileTotals ==
    /\ pc = "input"
    /\ df_transformed' = Returned(VentasBusinessRules(df, columns),
                                  columns \cup VentasDerivedCols)
    /\ pc' = "reconciled"
    /\ UNCHANGED <<cleaning_config, columns, df, df_cleaned, df_recleaned, aggregationVars>>

NextReconcile == AppendSupplied \/ ReconcileTotals

SpecReconcile == InitVentas /\ [][NextReconcile]_vars

\* --------------------------------------------------------------- claim C23
\* cantidad * precio of a record, null when a factor is null.
Product(r) ==
    IF r.cantidad = <<>> \/ r.precio = <<>> THEN <<>>
    ELSE <<(r.cantidad[1] * r.precio[1]) \div Unit>>

\* abs(total - cantidad * precio) > 0.01, false when a side is null.
OffByMoreThanOneCent(r) ==
    /\ r.total # <<>>
    /\ Product(r) # <<>>
    /\ \/ (r.total[1] - Product(r)[1]) * 100 > Unit
       \/ (Product(r)[1] - r.total[1]) * 100 > Unit

\* C23: after the reconciliation step, without a 'total' column every record's
\* total is cantidad * precio; with one, the total is cantidad * precio where
\* the supplied total is off by more than 0.01 and the supplied total, null
\* included, everywhere else.
C23_TotalReplacedOnlyBeyondTolerance ==
    pc = "reconciled" =>
        /\ Len(df_transformed.rows) = Len(df)
        /\ \A i \in 1..Len(df) :
              df_transformed.rows[i].total =
                  IF "total" \notin columns THEN Product(df[i])
                  ELSE IF OffByMoreThanOneCent(df[i]) THEN Product(df[i])
                  ELSE df[i].total

\* C23 witness: a dataset with a 'total' column in which one total was
\* replaced, one within the tolerance was kept as supplied and a null one
\* stayed null.
C23_Witness ==
    /\ pc = "reconciled"
    /\ "total" \in columns
    /\ \E i, j, k \in 1..Len(df) :
          /\ df[i].total = Some(999 * Unit)
          /\ df_transformed.rows[i].total = Some(20 * Unit)
          /\ df[j].total = Some(20 * Unit + 5)
          /\ df_transformed.rows[j].total = Some(20 * Unit + 5)
          /\ df[k].total = Null
          /\ df_transformed.rows[k].total = Null

\* --------------------------------------------------------------- claim C26
\* The tables of the database that have records, the datasets of the mock API
\* and the CSV files that can be read and have records, by name.
PersistedNames == {database.tables[i].name : i \in {j \in 1..Len(database.tables) :
                                                      database.tables[j].df.rows # <<>>}}
ApiNames == {_extract_api_data[i].name : i \in 1..Len(_extract_api_data)}
CsvNames == {csv_files[i].stem : i \in {j \in 1..Len(csv_files) :
                                          csv_files[j].readable /\ csv_files[j].df.rows # <<>>}}
CsvNamed(n) == csv_files[CHOOSE i \in 1..Len(csv_files) : csv_files[i].stem = n].df

\* The same columns with the same types, and the same records.
SameFrame(f, g) ==
    /\ f.dtypes = g.dtypes
    /\ Len(f.rows) = Len(g.rows)
    /\ \A i \in 1..Len(f.rows) : \A c \in f.columns : f.rows[i][c] = g.rows[i][c]

\* C26: what extract_all returns holds, under every name of a source, the
\* dataset of the last source that has the name, in the order CSV files, mock
\* API, database: a table with records in the database comes back as the
\* database holds it, whatever the CSV file of that name contains, and the
\* derived tables persisted by an earlier run come back as raw datasets.
C26_LaterSourceOverwrites ==
    pc = "extracted" =>
        /\ Range(keys(raw_data.data)) = CsvNames \cup ApiNames \cup PersistedNames
        /\ \A n \in PersistedNames : SameFrame(Get(raw_data.data, n), Get(database.tables, n))
        /\ \A n \in ApiNames \ PersistedNames :
              SameFrame(Get(raw_data.data, n), Get(_extract_api_data, n))
        /\ \A n \in CsvNames \ (ApiNames \cup PersistedNames) :
              SameFrame(Get(raw_data.data, n), CsvNamed(n))

\* C26 witness: the second extraction of a run sequence returns the ventas
\* table of the database, which differs from ventas.csv, and the rollup
\* ventas_por_producto the first run persisted.
C26_Witness ==
    /\ pc = "extracted"
    /\ calls = 1
    /\ "ventas" \in CsvNames \cap PersistedNames
    /\ SameFrame(Get(raw_data.data, "ventas"), Get(database.tables, "ventas"))
    /\ ~SameFrame(Get(raw_data.data, "ventas"), CsvNamed("ventas"))
    /\ Has(raw_data.data, "ventas_por_producto")

\* --------------------------------------------------------------- claim C27
\* C27: run_full_pipeline returns True only if load_all returned True.
C27_TrueOnlyIfLoadSucceeded ==
    pipeline_result = Some(TRUE) => load_result = Some(TRUE)

\* The stages run in order: run_full_pipeline returns True only after
\* extract_all and transform_all returned and load_all was called, whatever
\* load_all returned.
C27_TrueOnlyAfterEveryStage ==
    pipeline_result = Some(TRUE) =>
        /\ raw_data.called /\ ~raw_data.raised
        /\ processed_data.called /\ ~processed_data.raised
        /\ load_result # Null

\* ------------------------------------------------------------ ScraperManager
\* The ETL project while another program of the repository runs.
EtlIdle ==
    /\ cleaning_config = TestCleaning
    /\ ScenariosIdle
    /\ PipelineAtRest

\* The competitors a configuration may name, and the keys of scraper_map.
CompetitorNames == {"amazon", "mercadolibre", "walmart", "mock"}
scraper_map == {"amazon", "mercadolibre", "mock"}

\* scraping.competitors maps some of the names to a section with an enabled
\* flag; development.debug_mode is a flag.
Configs ==
    {[competitors |-> c, debug_mode |-> d] :
        c \in UNION {[S -> [enabled : BOOLEAN]] : S \in SUBSET CompetitorNames},
        d \in BOOLEAN}

\* _create_scraper returns a scraper exactly for the names of scraper_map.
_create_scraper(name) == name \in scraper_map

\* _initialize_scrapers adds to the registry the enabled competitors that have
\* a scraper, and 'mock' in debug mode.
_initialize_scrapers(cfg, registry) ==
    registry
    \cup {n \in DOMAIN cfg.competitors : cfg.competitors[n].enabled /\ _create_scraper(n)}
    \cup (IF cfg.debug_mode THEN {"mock"} ELSE {})

enable_scraper(cfg, registry, name) ==
    IF name \in registry THEN [scrapers |-> registry, returned |-> TRUE]
    ELSE IF name \notin DOMAIN cfg.competitors THEN [scrapers |-> registry, returned |-> FALSE]
    ELSE IF _create_scraper(name) THEN [scrapers |-> registry \cup {name}, returned |-> TRUE]
    ELSE [scrapers |-> registry, returned |-> FALSE]

disable_scraper(registry, name) ==
    IF name \notin registry THEN [scrapers |-> registry, returned |-> FALSE]
    ELSE [scrapers |-> registry \ {name}, returned |-> TRUE]

\* A reload that forgets self.scrapers.clear().
ReloadWithoutClear(cfg, registry) == _initialize_scrapers(cfg, registry)

reload_scrapers(cfg, registry) == _initialize_scrapers(cfg, {})

\* ------------------------------------------- scenario: the scraper registry
\* ScraperManager(config): the registry as _initialize_scrapers builds it.
InitRegistry ==
    /\ pc = "constructed"
    /\ EtlIdle
    /\ config \in Configs
    /\ scrapers = _initialize_scrapers(config, {})
    /\ competitor_name = ""
    /\ before = {}
    /\ returned = Null
    /\ futures = <<>>
    /\ results = <<>>
    /\ scraped = NotYet
    /\ RequestIdle
    /\ CategoryIdle
    /\ GameIdle

EnableScraper ==
    /\ \E name \in CompetitorNames \cup {"otro"} :
          LET out == enable_scraper(config, scrapers, name)
          IN /\ competitor_name' = name
             /\ scrapers' = out.scrapers
             /\ returned' = Some(out.returned)
    /\ before' = scrapers
    /\ pc' = "enable_scraper"
    /\ UNCHANGED <<etlVars, config, futures, results, scraped, requestVars, categoryVars, gameVars>>

DisableScraper ==
    /\ \E name \in CompetitorNames \cup {"otro"} :
          LET out == disable_scraper(scrapers, name)
          IN /\ competitor_name' = name
             /\ scrapers' = out.scrapers
             /\ returned' = Some(out.returned)
    /\ before' = scrapers
    /\ pc' = "disable_scraper"
    /\ UNCHANGED <<etlVars, config, futures, results, scraped, requestVars, categoryVars, gameVars>>

ReloadScrapers ==
    /\ scrapers' = reload_scrapers(config, scrapers)
    /\ before' = scrapers
    /\ competitor_name' = ""
    /\ returned' = Null
    /\ pc' = "reload_scrapers"
    /\ UNCHANGED <<etlVars, config, futures, results, scraped, requestVars, categoryVars, gameVars>>

NextRegistry == EnableScraper \/ DisableScraper \/ ReloadScrapers

SpecRegistry == InitRegistry /\ [][NextRegistry]_vars

\* --------------------------------------------------------------- claim C28
\* The competitors the configuration enables that have a scraper class, and
\* 'mock' in debug mode.
ConfiguredKeys ==
    {n \in {"amazon", "mercadolibre", "mock"} :
        n \in DOMAIN config.competitors /\ config.competitors[n].enabled}
    \cup {n \in {"mock"} : config.debug_mode}

\* C28: the registry built at construction and the registry left by every
\* reload_scrapers, whatever calls came before, have exactly the configured
\* keys; disable_scraper(n) returns True exactly when n was registered, and n
\* is absent afterwards.
C28_ReloadResetsRegistry ==
    /\ pc \in {"constructed", "reload_scrapers"} => scrapers = ConfiguredKeys
    /\ pc = "disable_scraper" =>
          /\ returned = Some(competitor_name \in before)
          /\ competitor_name \notin scrapers
          /\ scrapers = before \ {competitor_name}

\* C28 witness: a reload found a registry that calls had changed (a scraper
\* the configuration disables was registered, an enabled one was not) and
\* reset it.
C28_Witness ==
    /\ pc = "reload_scrapers"
    /\ before \ ConfiguredKeys # {}
    /\ ConfiguredKeys \ before # {}
    /\ scrapers = ConfiguredKeys

\* ------------------------------------------ scenario: scraping in parallel
\* What a scraper's start_scraping may return: up to MaxScraped products.
Titles == {"laptop", "mouse"}
ProductLists ==
    UNION {[1..k -> [title : Titles]] : k \in 0..MaxScraped}

\* _scrape_competitor: the scraper's products with scraped_by added (scraped_at
\* is a clock reading, left out), or the empty list when the run raises.
_scrape_competitor(name, run) ==
    IF run.raised THEN <<>>
    ELSE [i \in 1..Len(run.data) |-> [title |-> run.data[i].title, scraped_by |-> name]]

\* One future per registered scraper, not yet run.
Submitted(registry) ==
    [n \in registry |-> [done |-> FALSE, run |-> NotYet, result |-> <<>>]]

\* scrape_all_competitors up to the submission of the futures:
\* ThreadPoolExecutor(max_workers=0) raises ValueError, which nothing catches.
ScrapeAllCompetitors ==
    /\ pc = "constructed"
    /\ IF Cardinality(scrapers) = 0
       THEN /\ scraped' = Raises
            /\ pc' = "scrape_all_competitors"
            /\ UNCHANGED futures
       ELSE /\ futures' = Submitted(scrapers)
            /\ pc' = "as_completed"
            /\ UNCHANGED scraped
    /\ UNCHANGED <<etlVars, config, scrapers, competitor_name, before, returned, results,
                   requestVars, categoryVars, gameVars>>

\* A worker thread runs _scrape_competitor(name) to its end.
ScrapeCompetitor(name) ==
    /\ pc = "as_completed"
    /\ name \in DOMAIN futures
    /\ ~futures[name].done
    /\ \E run \in {Raises} \cup {Returns(l) : l \in ProductLists} :
          futures' = [futures EXCEPT ![name] =
                         [done |-> TRUE, run |-> run, result |-> _scrape_competitor(name, run)]]
    /\ UNCHANGED <<pc, etlVars, config, scrapers, competitor_name, before, returned, results,
                   scraped, requestVars, categoryVars, gameVars>>

\* The main thread takes a completed future from as_completed and stores its
\* result under its competitor's name.
Collect(name) ==
    /\ pc = "as_completed"
    /\ name \in DOMAIN futures
    /\ futures[name].done
    /\ name \notin DOMAIN results
    /\ competitor_name' = name
    /\ results' = (name :> futures[name].result) @@ results
    /\ UNCHANGED <<pc, etlVars, config, scrapers, before, returned, futures, scraped,
                   requestVars, categoryVars, gameVars>>

\* Every future was taken: the results are saved and returned.
ReturnResults ==
    /\ pc = "as_completed"
    /\ DOMAIN results = DOMAIN futures
    /\ scraped' = Returns(results)
    /\ pc' = "scrape_all_competitors"
    /\ UNCHANGED <<etlVars, config, scrapers, competitor_name, before, returned, futures,
                   results, requestVars, categoryVars, gameVars>>

NextScrape ==
    \/ ScrapeAllCompetitors
    \/ \E name \in CompetitorNames : ScrapeCompetitor(name)
    \/ \E name \in CompetitorNames : Collect(name)
    \/ ReturnResults

SpecScrape == InitRegistry /\ [][NextScrape]_vars

\* --------------------------------------------------------------- claim C24
\* What the scraper registered under a name produced, as its entry of the
\* result: its products marked with its name, nothing when its run raised.
OwnProducts(name) ==
    IF futures[name].run.raised THEN <<>>
    ELSE [i \in 1..Len(futures[name].run.data) |->
             [title |-> futures[name].run.data[i].title, scraped_by |-> name]]

MappingOfRegistry ==
    /\ ~scraped.raised
    /\ DOMAIN scraped.data = scrapers
    /\ \A name \in scrapers : scraped.data[name] = OwnProducts(name)

\* C24: for every registry, the empty one included, and every completion
\* order, scrape_all_competitors returns a mapping with exactly the registered
\* names as keys, each holding its own scraper's products, and the empty list
\* for a scraper whose run raised.
C24_ReturnsMappingForEveryRegistry ==
    pc = "scrape_all_competitors" => MappingOfRegistry

\* With at least one registered scraper the mapping is returned as described;
\* with none the call raises.
C24_MappingUnlessRegistryEmpty ==
    /\ pc = "scrape_all_competitors" =>
          IF scrapers = {} THEN scraped = Raises ELSE MappingOfRegistry
    /\ pc = "as_completed" =>
          \A name \in DOMAIN results : results[name] = OwnProducts(name)

\* Two scrapers completed, one raised and the other returned products, and the
\* result was assembled with the failed one collected first.
C24_OutOfOrder ==
    /\ pc = "scrape_all_competitors"
    /\ {"amazon", "mercadolibre"} \subseteq scrapers
    /\ futures["amazon"].run.raised
    /\ Len(futures["mercadolibre"].run.data) > 0
    /\ competitor_name = "mercadolibre"

\* ------------------------------------------------------------- BaseScraper
\* What _make_request returns: a response, numbered by the attempt that got
\* it, or None.
NoResponse == Returns(Null)
ResponseOf(k) == Returns(Some(k))

\* The except clause after an attempt with loop index a failed, once the error
\* is counted: sleep and go on, or return None, when a is retries - 1.  The
\* variant sleeps after the last attempt too.
AfterFailureAlwaysWaits(a, r) ==
    IF a < r THEN [wait |-> <<"backoff">>, response |-> NotYet]
    ELSE [wait |-> <<>>, response |-> NoResponse]

AfterFailure(a, r) ==
    IF a < r - 1 THEN [wait |-> <<"backoff">>, response |-> NotYet]
    ELSE [wait |-> <<>>, response |-> NoResponse]

\* ----------------------------------------------- scenario: request retries
\* A scraper built with scraping.retries from 0 to MaxRetries enters
\* _make_request; log records the requests sent and the sleeps, in order.
InitRequest ==
    /\ pc = "_make_request"
    /\ EtlIdle
    /\ ManagerIdle
    /\ CategoryIdle
    /\ GameIdle
    /\ retries \in 0..MaxRetries
    /\ attempt = 0
    /\ stats = [errors |-> 0]
    /\ log = <<"call">>
    /\ response = NotYet

\* One pass of the for loop: the request is sent; it succeeds (the politeness
\* delay is slept and the response returned), fails with a RequestException, or,
\* for a method other than GET and POST, ValueError leaves the function before
\* anything is sent.
Attempt ==
    /\ pc = "_make_request"
    /\ ~response.called
    /\ attempt < retries
    /\ \E outcome \in {"ok", "RequestException", "ValueError"} :
          /\ outcome = "ValueError" => attempt = 0
          /\ CASE outcome = "ok" ->
                    /\ log' = log \o <<"request", "delay">>
                    /\ response' = ResponseOf(attempt + 1)
                    /\ UNCHANGED stats
               [] outcome = "RequestException" ->
                    /\ log' = log \o <<"request">> \o AfterFailure(attempt, retries).wait
                    /\ response' = AfterFailure(attempt, retries).response
                    /\ stats' = [stats EXCEPT !.errors = @ + 1]
               [] outcome = "ValueError" ->
                    /\ response' = Raises
                    /\ UNCHANGED <<log, stats>>
    /\ attempt' = attempt + 1
    /\ UNCHANGED <<pc, etlVars, managerVars, retries, categoryVars, gameVars>>

\* The loop is exhausted without a return inside it: return None.
LoopExhausted ==
    /\ pc = "_make_request"
    /\ ~response.called
    /\ attempt >= retries
    /\ response' = NoResponse
    /\ UNCHANGED <<pc, etlVars, managerVars, retries, attempt, stats, log, categoryVars, gameVars>>

Calls(l) == Cardinality({i \in 1..Len(l) : l[i] = "call"})

\* The same scraper is asked for another URL.
MakeRequest ==
    /\ pc = "_make_request"
    /\ response.called
    /\ Calls(log) < MaxRequests
    /\ attempt' = 0
    /\ log' = log \o <<"call">>
    /\ response' = NotYet
    /\ UNCHANGED <<pc, etlVars, managerVars, retries, stats, categoryVars, gameVars>>

NextRequest == Attempt \/ LoopExhausted \/ MakeRequest

SpecRequest == InitRequest /\ [][NextRequest]_vars

\* --------------------------------------------------------------- claim C25
\* The part of the log that belongs to the call in progress.
LastCall == CHOOSE i \in 1..Len(log) : log[i] = "call" /\ \A j \in (i + 1)..Len(log) : log[j] # "call"
Sent == {i \in (LastCall + 1)..Len(log) : log[i] = "request"}
FollowedBy(i, what) == i < Len(log) /\ log[i + 1] = what
Succeeded(i) == FollowedBy(i, "delay")
IsLastSent(i) == \A j \in Sent : j <= i
Failures(l) ==
    Cardinality({i \in 1..Len(l) : l[i] = "request" /\ ~(i < Len(l) /\ l[i + 1] = "delay")})

\* At most retries attempts; the response of the first successful attempt and
\* nothing sent after it; None once retries attempts failed; one error counted
\* per failed attempt.
AttemptsAndErrors ==
    /\ Cardinality(Sent) <= retries
    /\ \A i \in Sent : Succeeded(i) => IsLastSent(i) /\ response = ResponseOf(Cardinality(Sent))
    /\ response = NoResponse => Cardinality(Sent) = retries /\ \A i \in Sent : ~Succeeded(i)
    /\ (response.called /\ ~response.raised /\ response # NoResponse) =>
          \E i \in Sent : Succeeded(i)
    /\ (~response.called /\ attempt < retries) => \A i \in Sent : ~Succeeded(i)
    /\ stats.errors = Failures(log)

\* C25 as stated: at most retries attempts, the first success returned, None
\* after retries failures, one error per failed attempt, and a wait after
\* every attempt of a call except the last one.
C25_NoWaitAfterLastAttempt ==
    /\ AttemptsAndErrors
    /\ response.called =>
          \A i \in Sent : IsLastSent(i) <=> i = Len(log)

\* C25: at most retries attempts, the first success returned, None after
\* retries failures, one error per failed attempt; a backoff is slept after
\* every failed attempt except the last allowed one, and the politeness delay
\* after the successful attempt, before its response is returned.
C25_BackoffBetweenFailuresDelayAfterSuccess ==
    /\ AttemptsAndErrors
    /\ response.called =>
          \A i \in Sent :
             /\ FollowedBy(i, "backoff") <=> ~IsLastSent(i)
             /\ IsLastSent(i) => (i = Len(log) \/ (Succeeded(i) /\ i + 1 = Len(log)))
             /\ (IsLastSent(i) /\ i = Len(log)) => response = NoResponse

\* C25 witness: a call whose first attempts failed and whose last allowed
\* attempt succeeded, after an earlier call that used up its attempts.
C25_Witness ==
    /\ response = ResponseOf(retries)
    /\ retries >= 2
    /\ Calls(log) = 2
    /\ stats.errors = 2 * retries - 1

\* -------------------------------------- AmazonScraper, MercadoLibreScraper
\* The loop condition of _scrape_category, and one that lets a page more in.
WithinOnePageMore(p, m) == p <= m + 1

WithinMaxPages(p, m) == p <= m

\* _has_next_page: the page has a next button without the class 'disabled'.
_has_next_page(html) == html.next_button /\ ~html.disabled

\* What one pass of the loop meets for its page: _make_request returns None
\* ("none"), a page is fetched ("page"), or a page is fetched and its parsing
\* raises in _extract_products_from_page or in _has_next_page.
NoPage == [products |-> <<>>, next_button |-> FALSE, disabled |-> FALSE]
Fetches ==
    {[kind |-> k, html |-> NoPage] : k \in {"none", "raise_extract"}}
    \cup {[kind |-> k, html |-> [products |-> l, next_button |-> b, disabled |-> d]] :
             k \in {"page", "raise_next"},
             l \in UNION {[1..n -> [title : Titles]] : n \in 0..MaxScraped},
             b \in BOOLEAN, d \in BOOLEAN}

\* ---------------------------------------- scenario: the pages of a category
\* A scraper with max_pages from 0 to MaxPages enters _scrape_category.
InitCategory ==
    /\ pc = "_scrape_category"
    /\ EtlIdle
    /\ ManagerIdle
    /\ RequestIdle
    /\ GameIdle
    /\ max_pages \in 0..MaxPages
    /\ page = 1
    /\ all_products = <<>>
    /\ requested = <<>>

\* One pass of the while loop, up to its break or its page += 1.
ScrapePage ==
    /\ pc = "_scrape_category"
    /\ WithinMaxPages(page, max_pages)
    /\ \E f \in Fetches :
          /\ requested' = Append(requested, [page |-> page, kind |-> f.kind, html |-> f.html])
          /\ CASE f.kind = "none" ->
                    /\ pc' = "returned"
                    /\ UNCHANGED <<page, all_products>>
               [] f.kind = "raise_extract" ->
                    /\ pc' = "returned"
                    /\ UNCHANGED <<page, all_products>>
               [] f.kind = "raise_next" ->
                    /\ IF Len(f.html.products) = 0
                       THEN UNCHANGED all_products
                       ELSE all_products' = all_products \o f.html.products
                    /\ pc' = "returned"
                    /\ UNCHANGED page
               [] f.kind = "page" ->
                    IF Len(f.html.products) = 0
                    THEN /\ pc' = "returned"
                         /\ UNCHANGED <<page, all_products>>
                    ELSE /\ all_products' = all_products \o f.html.products
                         /\ IF _has_next_page(f.html)
                            THEN page' = page + 1 /\ UNCHANGED pc
                            ELSE pc' = "returned" /\ UNCHANGED page
    /\ UNCHANGED <<etlVars, managerVars, requestVars, max_pages, gameVars>>

\* The loop condition fails: all_products is returned.
ReturnAllProducts ==
    /\ pc = "_scrape_category"
    /\ ~WithinMaxPages(page, max_pages)
    /\ pc' = "returned"
    /\ UNCHANGED <<etlVars, managerVars, requestVars, categoryVars, gameVars>>

NextCategory == ScrapePage \/ ReturnAllProducts

\* The thread that runs _scrape_category keeps running.
SpecCategory == InitCategory /\ [][NextCategory]_vars /\ WF_vars(NextCategory)

\* --------------------------------------------------------------- claim C30
\* A requested page after which the loop goes on: it was fetched, yielded
\* products and has an enabled next-page link.
GoesOn(e) ==
    /\ e.kind = "page"
    /\ Len(e.html.products) > 0
    /\ e.html.next_button
    /\ ~e.html.disabled

\* The products of the pages fetched, in page order.
ProductsThrough(k) ==
    [i \in 1..k |-> IF requested[i].kind \in {"page", "raise_next"}
                    THEN requested[i].html.products ELSE <<>>]
RECURSIVE Concat(_)
Concat(ls) == IF Len(ls) = 0 THEN <<>> ELSE Head(ls) \o Concat(Tail(ls))

PagesInOrderUntilFirstStop ==
    /\ Len(requested) <= max_pages
    /\ \A i \in 1..Len(requested) : requested[i].page = i
    /\ \A i \in 1..Len(requested) : i < Len(requested) => GoesOn(requested[i])
    /\ pc = "_scrape_category" => \A i \in 1..Len(requested) : GoesOn(requested[i])
    /\ pc = "returned" =>
          \/ Len(requested) = max_pages
          \/ Len(requested) > 0 /\ ~GoesOn(requested[Len(requested)])
    /\ all_products = Concat(ProductsThrough(Len(requested)))

\* C30: _scrape_category terminates; it requests at most max_pages pages, in
\* increasing order from 1, stops at the first page whose request fails, that
\* yields no product or that has no enabled next-page link, and returns the
\* products of all the pages fetched.
C30_TerminatesWithinMaxPages ==
    /\ []PagesInOrderUntilFirstStop
    /\ <>(pc = "returned")

\* C30 witness: the loop was stopped by max_pages, after two or more pages
\* that all had products and an enabled next-page link.
C30_Witness ==
    /\ pc = "returned"
    /\ max_pages >= 2
    /\ Len(requested) = max_pages
    /\ GoesOn(requested[max_pages])
    /\ Len(all_products) = max_pages

\* ------------------------------------------------------------- adivinanza
\* The attempts a game starts with.
IntentosIniciales == 5

\* random.randint(1, 100), with MaxSecreto in the place of 100.
Secretos == 1..MaxSecreto

\* What the player may have typed: the numbers around the range of the secret
\* and texts that are not integers.
Enteros == (0 - 2)..(MaxSecreto + 1)
Entradas == {ToString(n) : n \in Enteros} \cup {"", "abc", "2.5"}

\* int(text): the integer the text writes, or ValueError (Null).
int(text) ==
    IF \E n \in Enteros : ToString(n) = text
    THEN Some(CHOOSE n \in Enteros : ToString(n) = text)
    ELSE Null

\* 'if intento:' is false for None and for 0.
Truthy(intento) == Len(intento) = 1 /\ intento[1] # 0

\* ---------------------------------------------------- scenario: the game
InitJuego ==
    /\ pc = "mainloop"
    /\ EtlIdle
    /\ ManagerIdle
    /\ RequestIdle
    /\ CategoryIdle
    /\ numero_secreto \in Secretos
    /\ intentos_restantes = IntentosIniciales
    /\ entry_intentos = ""
    /\ evento = Null

\* The player types a text and presses Verificar: verificar_intentos, with
\* reiniciar_juego when the guess is right or the attempts run out.
Verificar ==
    /\ pc = "mainloop"
    /\ \E text \in Entradas, nuevo \in Secretos :
          LET intento == int(text)
              acierto == Truthy(intento) /\ intento[1] = numero_secreto
              quedan == IF Truthy(intento) /\ ~acierto
                        THEN intentos_restantes - 1 ELSE intentos_restantes
              reinicia == Truthy(intento) /\ (acierto \/ quedan = 0)
          IN /\ evento' = Some([boton |-> "Verificar", entry |-> text,
                                intentos |-> intentos_restantes, secreto |-> numero_secreto])
             /\ IF reinicia
                THEN /\ numero_secreto' = nuevo
                     /\ intentos_restantes' = IntentosIniciales
                     /\ entry_intentos' = ""
                ELSE /\ intentos_restantes' = quedan
                     /\ entry_intentos' = text
                     /\ UNCHANGED numero_secreto
    /\ UNCHANGED <<pc, etlVars, managerVars, requestVars, categoryVars>>

\* The player presses Reiniciar, whatever the entry holds: reiniciar_juego.
Reiniciar ==
    /\ pc = "mainloop"
    /\ \E text \in Entradas, nuevo \in Secretos :
          /\ evento' = Some([boton |-> "Reiniciar", entry |-> text,
                             intentos |-> intentos_restantes, secreto |-> numero_secreto])
          /\ numero_secreto' = nuevo
    /\ intentos_restantes' = IntentosIniciales
    /\ entry_intentos' = ""
    /\ UNCHANGED <<pc, etlVars, managerVars, requestVars, categoryVars>>

NextJuego == Verificar \/ Reiniciar

SpecJuego == InitJuego /\ [][NextJuego]_vars

\* --------------------------------------------------------------- claim C29
\* The counter the last event must have left, a valid guess being an entry
\* that int() accepts: 5 after Reiniciar, after the right guess and after the
\* wrong guess that used the last attempt; one less after any other wrong
\* guess; unchanged after an entry that is not an integer.
ExpectedIntentos(ev) ==
    IF ev.boton = "Reiniciar" THEN IntentosIniciales
    ELSE IF int(ev.entry) = Null THEN ev.intentos
    ELSE IF int(ev.entry)[1] = ev.secreto THEN IntentosIniciales
    ELSE IF ev.intentos = 1 THEN IntentosIniciales
    ELSE ev.intentos - 1

\* C29: after every handled button event the counter is in 1..5; a wrong valid
\* guess decreases it by exactly one, an invalid entry leaves it unchanged,
\* and the game resets to 5 attempts with a new secret when the guess is
\* right and when the counter reaches 0.
C29_WrongValidGuessCostsOneAttempt ==
    /\ intentos_restantes \in 1..IntentosIniciales
    /\ numero_secreto \in Secretos
    /\ evento # Null => intentos_restantes = ExpectedIntentos(evento[1])

\* The counter stays in 1..5 and the secret in its range; the counter is as
\* described after every event except a Verificar whose entry is the integer 0.
C29_CounterInRangeZeroIgnored ==
    /\ intentos_restantes \in 1..IntentosIniciales
    /\ numero_secreto \in Secretos
    /\ evento # Null =>
          IF evento[1].boton = "Verificar" /\ int(evento[1].entry) = Some(0)
          THEN intentos_restantes = evento[1].intentos
          ELSE intentos_restantes = ExpectedIntentos(evento[1])

\* The last attempt was used by a wrong guess and the game was reset.
C29_ResetAfterLastAttempt ==
    /\ evento # Null
    /\ evento[1].boton = "Verificar"
    /\ evento[1].intentos = 1
    /\ int(evento[1].entry) = Some(MaxSecreto + 1)
    /\ intentos_restantes = IntentosIniciales

====
